---- MODULE Spec2Model ----
(***************************************************************************)
(* A model of jsdoc-builder (src/src/index.ts): the configuration resolver *)
(* (loadConfig, mergeDeep), the annotate-in-place pipeline (transformCode, *)
(* collectTargets, buildCommentMap, the AI description requests, the       *)
(* printer step and the Vue reassembly), the type inference                *)
(* (inferParameterType, inferReturnTypeText, inferExpressionType) and the  *)
(* comment formatting (createJSDocComment, formatTemplate).                *)
(*                                                                         *)
(* Text is modelled as a sequence of tokens, each token standing for a     *)
(* run of bytes (a statement, a comment, a line break, a piece of markup). *)
(* An optional value (a property that may be absent from an object) is the *)
(* empty sequence when absent and a one-element sequence when present.     *)
(***************************************************************************)
EXTENDS Integers, Sequences, FiniteSets, TLC

VARIABLES
  options,     \* GenerateJSDocOptions of the run, with the config file and the environment
  config,      \* the NormalizedConfig loadConfig returned (NoConfig before)
  pc,          \* position of the run
  filePath,    \* [ext]: the extension of the processed file
  file,        \* content of the file on disk
  writes,      \* number of fs.writeFileSync calls so far
  pass,        \* 1: first application, 2: application to the result of the first
  input1,      \* the text the first pass read
  output1,     \* the text the first pass returned
  originalCode,\* transformCode's originalCode of the current pass
  targets,     \* collectTargets' result of the current pass
  entries,     \* buildCommentMap's entries so far
  inflight,    \* indices of targets whose AI request is in flight
  requests,    \* log of the network requests issued in the current pass
  last,        \* the request settled last: its target and what came back
  output,      \* the text the current pass returned
  result,      \* state of the promise of the current pass
  remote,      \* what the remote service is doing with the request in flight
  log,         \* what the run has written to the console
  fn,          \* type inference: the function-like declaration under inference
  inferred,    \* type inference: the parameter and return types reported
  runs,        \* concurrent runs: the state of each run
  shared,      \* concurrent runs: the objects the runs have in common
  vite,        \* the build-tool plugin: one call of transform
  format       \* comment formatting: one call of createJSDocComment

vars == <<options, config, pc, filePath, file, writes, pass, input1, output1,
          originalCode, targets, entries, inflight, requests, last, output,
          result, remote, log, fn, inferred, runs, shared, vite, format>>

pipelineVars == <<filePath, file, writes, pass, input1, output1, originalCode,
                  targets, entries, inflight, requests, last, output, result,
                  remote, log>>

inferVars == <<fn, inferred>>
concurrentVars == <<runs, shared>>
viteVars == <<vite>>
formatVars == <<format>>

\* The variables the annotate-in-place pipeline and loadConfig leave alone.
sideVars == <<inferVars, concurrentVars, viteVars, formatVars>>

(***************************************************************************)
(* Optional values.                                                        *)
(***************************************************************************)
None == <<>>
Some(v) == <<v>>
IsSet(o) == o # <<>>
Val(o) == o[1]

(***************************************************************************)
(* Configuration                                                           *)
(***************************************************************************)
TemplateFields == {"descriptionLine", "paramLine", "returnsLine"}
AiFields == {"provider", "enabled", "apiKey", "model", "baseUrl", "timeoutMs",
             "promptTemplate"}

DEFAULT_PROMPT_TEMPLATE ==
  "Write one concise sentence for the JSDoc @description of function '{{functionName}}'. Parameters: {{parameters}}. Return type: {{returnType}}. Source: {{sourceSnippet}}"

OPENAI_AI_DEFAULTS ==
  [provider |-> "openai", model |-> "gpt-4o-mini",
   baseUrl |-> "https://api.openai.com/v1/chat/completions",
   timeoutMs |-> 12000, promptTemplate |-> DEFAULT_PROMPT_TEMPLATE]

GEMINI_AI_DEFAULTS ==
  [provider |-> "gemini", model |-> "gemini-1.5-flash",
   baseUrl |-> "https://generativelanguage.googleapis.com/v1beta",
   timeoutMs |-> 12000, promptTemplate |-> DEFAULT_PROMPT_TEMPLATE]

DEFAULT_CONFIG ==
  [template |-> [descriptionLine |-> Some("@description {{description}}"),
                 paramLine |-> Some("@param {${type}} ${name}"),
                 returnsLine |-> Some("@returns {${type}}")],
   ai |-> [provider |-> Some(OPENAI_AI_DEFAULTS.provider),
           enabled |-> Some(FALSE),
           apiKey |-> None,
           model |-> Some(OPENAI_AI_DEFAULTS.model),
           baseUrl |-> Some(OPENAI_AI_DEFAULTS.baseUrl),
           timeoutMs |-> Some(OPENAI_AI_DEFAULTS.timeoutMs),
           promptTemplate |-> Some(OPENAI_AI_DEFAULTS.promptTemplate)],
   includeReturnsWhenVoid |-> Some(TRUE)]

\* The empty object {}: a config source that sets nothing.
EmptyConfig ==
  [template |-> [f \in TemplateFields |-> None],
   ai |-> [f \in AiFields |-> None],
   includeReturnsWhenVoid |-> None]

\* {...a, ...b}: every property b has replaces a's.
Spread(a, b) == [f \in DOMAIN a |-> IF IsSet(b[f]) THEN b[f] ELSE a[f]]

\* A shallow merge: a section of a source replaces the whole section of the
\* result.
MergeSourceBySection(res, source) ==
  [template |-> IF \E f \in TemplateFields : IsSet(source.template[f])
                  THEN source.template ELSE res.template,
   ai |-> IF \E f \in AiFields : IsSet(source.ai[f]) THEN source.ai ELSE res.ai,
   includeReturnsWhenVoid |->
     IF IsSet(source.includeReturnsWhenVoid)
       THEN source.includeReturnsWhenVoid ELSE res.includeReturnsWhenVoid]

\* One iteration of mergeDeep's loop over its sources.
MergeSource(res, source) ==
  [template |-> Spread(res.template, source.template),
   ai |-> Spread(res.ai, source.ai),
   includeReturnsWhenVoid |->
     IF IsSet(source.includeReturnsWhenVoid)
       THEN source.includeReturnsWhenVoid ELSE res.includeReturnsWhenVoid]

RECURSIVE MergeInto(_, _)
MergeInto(res, sources) ==
  IF sources = <<>> THEN res
  ELSE MergeInto(MergeSource(res, Head(sources)), Tail(sources))

\* mergeDeep, reading the built-in defaults from the object that holds them.
mergeDeepFrom(defaults, sources) ==
  MergeInto([template |-> defaults.template, ai |-> defaults.ai,
             includeReturnsWhenVoid |-> defaults.includeReturnsWhenVoid],
            sources)

mergeDeep(sources) == mergeDeepFrom(DEFAULT_CONFIG, sources)

\* The text of the config file taken for what it spells out, whatever the
\* file's state.
loadConfigFileLenient(configFile) == configFile.value

\* loadConfigFile: anything but a readable file holding a JSON object gives {}.
loadConfigFile(configFile) ==
  IF configFile.state = "object" THEN configFile.value ELSE EmptyConfig

normalizeProvider(provider) ==
  IF IsSet(provider) /\ Val(provider) = "gemini" THEN "gemini" ELSE "openai"

\* JavaScript truthiness of an optional string / number.
TruthyStr(o) == IsSet(o) /\ Val(o) # ""
TruthyNum(o) == IsSet(o) /\ Val(o) # 0

\* GOOGLE_API_KEY looked up before GEMINI_API_KEY.
resolveApiKeyFromEnvGoogleFirst(provider, env) ==
  IF provider = "gemini"
    THEN (IF env.GOOGLE_API_KEY # "" THEN Some(env.GOOGLE_API_KEY)
          ELSE IF env.GEMINI_API_KEY # "" THEN Some(env.GEMINI_API_KEY) ELSE None)
    ELSE (IF env.OPENAI_API_KEY # "" THEN Some(env.OPENAI_API_KEY) ELSE None)

resolveApiKeyFromEnv(provider, env) ==
  IF provider = "gemini"
    THEN (IF env.GEMINI_API_KEY # "" THEN Some(env.GEMINI_API_KEY)
          ELSE IF env.GOOGLE_API_KEY # "" THEN Some(env.GOOGLE_API_KEY) ELSE None)
    ELSE (IF env.OPENAI_API_KEY # "" THEN Some(env.OPENAI_API_KEY) ELSE None)

applyProviderDefaults(ai) ==
  LET mine == IF Val(ai.provider) = "gemini" THEN GEMINI_AI_DEFAULTS
              ELSE OPENAI_AI_DEFAULTS
      other == IF Val(ai.provider) = "gemini" THEN OPENAI_AI_DEFAULTS
               ELSE GEMINI_AI_DEFAULTS
  IN [ai EXCEPT
        !.model = IF ~TruthyStr(ai.model) \/ Val(ai.model) = other.model
                    THEN Some(mine.model) ELSE ai.model,
        !.baseUrl = IF ~TruthyStr(ai.baseUrl) \/ Val(ai.baseUrl) = other.baseUrl
                      THEN Some(mine.baseUrl) ELSE ai.baseUrl,
        !.promptTemplate = IF ~TruthyStr(ai.promptTemplate)
                             THEN Some(DEFAULT_PROMPT_TEMPLATE)
                             ELSE ai.promptTemplate,
        !.timeoutMs = IF ~TruthyNum(ai.timeoutMs) \/ Val(ai.timeoutMs) <= 0
                        THEN Some(mine.timeoutMs) ELSE ai.timeoutMs]

\* The sources loadConfig hands to mergeDeep, in the order it hands them.
ConfigSources(opts) ==
  << DEFAULT_CONFIG,
     loadConfigFile(opts.configFile),
     opts.config,
     IF opts.disableAI
       THEN [EmptyConfig EXCEPT !.ai.enabled = Some(FALSE)] ELSE EmptyConfig >>

\* The merged configuration, before loadConfig normalises it.
MergedConfig(opts) == mergeDeep(ConfigSources(opts))

\* loadConfig after the merge: the provider, its defaults, the key, the switch.
normalizeConfig(merged, env) ==
  LET ai1 == applyProviderDefaults(
               [merged.ai EXCEPT !.provider = Some(normalizeProvider(merged.ai.provider))])
      envApiKey == resolveApiKeyFromEnv(Val(ai1.provider), env)
      ai2 == IF ~TruthyStr(ai1.apiKey) /\ TruthyStr(envApiKey)
               THEN [ai1 EXCEPT !.apiKey = envApiKey] ELSE ai1
      ai3 == IF IsSet(ai2.enabled) /\ Val(ai2.enabled) /\ ~TruthyStr(ai2.apiKey)
               THEN [ai2 EXCEPT !.enabled = Some(FALSE)] ELSE ai2
  IN [merged EXCEPT !.ai = ai3]

loadConfig(opts) == normalizeConfig(MergedConfig(opts), opts.env)

\* loadConfig, reading the built-in defaults from the object that holds them.
loadConfigFrom(defaults, opts) ==
  normalizeConfig(mergeDeepFrom(defaults, <<defaults>> \o Tail(ConfigSources(opts))),
                  opts.env)

NoConfig == EmptyConfig

(***************************************************************************)
(* Inputs of the configuration resolver: the config file, the inline       *)
(* config object, the disable flag and the environment.                    *)
(***************************************************************************)
\* How many properties one config source (the file, the inline object) sets.
MaxSet == 1

Settings ==
  {<<"template", "descriptionLine", "@desc A">>,
   <<"template", "descriptionLine", "@desc B">>,
   <<"template", "paramLine", "@arg ${name}">>,
   <<"template", "returnsLine", "@return {{type}}">>,
   <<"ai", "provider", "gemini">>,
   <<"ai", "provider", "openai">>,
   <<"ai", "provider", "claude">>,
   <<"ai", "enabled", TRUE>>,
   <<"ai", "enabled", FALSE>>,
   <<"ai", "apiKey", "">>,
   <<"ai", "apiKey", "key">>,
   <<"ai", "model", GEMINI_AI_DEFAULTS.model>>,
   <<"ai", "model", "my-model">>,
   <<"ai", "baseUrl", GEMINI_AI_DEFAULTS.baseUrl>>,
   <<"ai", "baseUrl", "http://localhost/ai">>,
   <<"ai", "timeoutMs", 0>>,
   <<"ai", "timeoutMs", 500>>,
   <<"ai", "promptTemplate", "">>,
   <<"ai", "promptTemplate", "Describe {{functionName}}">>,
   <<"top", "includeReturnsWhenVoid", TRUE>>,
   <<"top", "includeReturnsWhenVoid", FALSE>>}

Sets(p, s) ==
  IF s[1] = "template" THEN IsSet(p.template[s[2]])
  ELSE IF s[1] = "ai" THEN IsSet(p.ai[s[2]])
  ELSE IsSet(p.includeReturnsWhenVoid)

WithSetting(p, s) ==
  IF s[1] = "template" THEN [p EXCEPT !.template[s[2]] = Some(s[3])]
  ELSE IF s[1] = "ai" THEN [p EXCEPT !.ai[s[2]] = Some(s[3])]
  ELSE [p EXCEPT !.includeReturnsWhenVoid = Some(s[3])]

RECURSIVE PartialConfigs(_)
PartialConfigs(n) ==
  IF n = 0 THEN {EmptyConfig}
  ELSE LET prev == PartialConfigs(n - 1)
       IN prev \cup {WithSetting(p, s) : <<p, s>> \in
                       {ps \in prev \X Settings : ~Sets(ps[1], ps[2])}}

NoEnv == [OPENAI_API_KEY |-> "", GEMINI_API_KEY |-> "", GOOGLE_API_KEY |-> ""]
NoFile == [state |-> "missing", value |-> EmptyConfig]

\* What the text of a config file that is no JSON object spells out: nothing,
\* or settings (as in a file with a syntax error, or with an array as root).
Unparsed ==
  {EmptyConfig,
   [EmptyConfig EXCEPT !.ai.enabled = Some(TRUE), !.ai.apiKey = Some("file-key")]}

\* The config file: missing; unreadable; not JSON; JSON with a root that is no
\* object; a JSON object. value is what the file's text spells out.
ConfigFiles ==
  {NoFile}
    \cup {[state |-> st, value |-> v] :
            st \in {"unreadable", "invalid", "nonobject"}, v \in Unparsed}
    \cup {[state |-> "object", value |-> p] : p \in PartialConfigs(MaxSet)}

Envs ==
  {[OPENAI_API_KEY |-> "", GEMINI_API_KEY |-> "", GOOGLE_API_KEY |-> ""],
   [OPENAI_API_KEY |-> "env-openai", GEMINI_API_KEY |-> "", GOOGLE_API_KEY |-> ""],
   [OPENAI_API_KEY |-> "", GEMINI_API_KEY |-> "", GOOGLE_API_KEY |-> "env-google"],
   [OPENAI_API_KEY |-> "", GEMINI_API_KEY |-> "env-gemini",
    GOOGLE_API_KEY |-> "env-google"]}

ConfigOptions ==
  [configFile : ConfigFiles, config : PartialConfigs(MaxSet), disableAI : BOOLEAN,
   env : Envs]

(***************************************************************************)
(* The configuration resolver on its own: one call of loadConfig.          *)
(***************************************************************************)
\* What comes back for one request: no answer in time, a transport error, a
\* status >= 400, a body that is not JSON, or a JSON body ("ok"); content is
\* the text the body holds where the provider puts it (None: the property is
\* missing).
Outcome(kind, content) == [kind |-> kind, content |-> content]
NoOutcome == Outcome("none", None)

NoFn == [checker |-> FALSE, async |-> FALSE, parameters |-> <<>>, type |-> None,
         body |-> [block |-> TRUE, returns |-> <<>>, nested |-> <<>>]]
NoInferred == [parameters |-> <<>>, returnType |-> "", lines |-> <<>>]
NoLast == [target |-> 0, outcome |-> NoOutcome]
NoShared == [defaults |-> DEFAULT_CONFIG, inline |-> <<>>]
NoVite == [pc |-> "idle"]
NoFormat == [pc |-> "idle"]

IdlePipeline ==
  /\ filePath = [ext |-> ".ts"]
  /\ file = <<>>
  /\ writes = 0
  /\ pass = 1
  /\ input1 = <<>>
  /\ output1 = <<>>
  /\ originalCode = <<>>
  /\ targets = <<>>
  /\ entries = <<>>
  /\ inflight = {}
  /\ requests = <<>>
  /\ last = NoLast
  /\ output = <<>>
  /\ result = "pending"
  /\ remote = "silent"
  /\ log = <<>>

IdleInfer ==
  /\ fn = NoFn
  /\ inferred = NoInferred

IdleConcurrent ==
  /\ runs = <<>>
  /\ shared = NoShared

IdleVite == vite = NoVite
IdleFormat == format = NoFormat

InitConfig ==
  /\ options \in ConfigOptions
  /\ config = NoConfig
  /\ pc = "loadConfig"
  /\ IdlePipeline
  /\ IdleInfer
  /\ IdleConcurrent
  /\ IdleVite
  /\ IdleFormat

LoadConfig ==
  /\ pc = "loadConfig"
  /\ config' = loadConfig(options)
  /\ pc' = "configured"
  /\ UNCHANGED <<options, pipelineVars, sideVars>>

NextConfig == LoadConfig

SpecConfig == InitConfig /\ [][NextConfig]_vars

(***************************************************************************)
(* Text: tokens, the syntax tree the parser builds over them, and the       *)
(* printer.                                                                 *)
(***************************************************************************)
\* k: kind of the token; n: the declared name (a statement) or the description
\* (a documentation comment); c: whether a statement is written the way the
\* printer writes it.
Token(k, n, c) == [k |-> k, n |-> n, c |-> c]
FnDecl(n, c) == Token("fn", n, c)        \* function n(...) {...}
VarStmt(n, c) == Token("var", n, c)      \* const n = (...) => ...;
OtherStmt == Token("stmt", "", TRUE)     \* any other statement
NL == Token("nl", "", TRUE)              \* a line break
Doc(d) == Token("doc", d, TRUE)          \* /** ... d ... */
Cmt == Token("cmt", "", TRUE)            \* /* ... */
Tpl == Token("tpl", "", TRUE)            \* markup of a Vue file: <template>...</template>
Open == Token("open", "", TRUE)          \* <script
Attr == Token("attr", "", TRUE)          \*  lang="ts"
AttrQ == Token("attrq", "", TRUE)        \*  data-src="
Quote == Token("quote", "", TRUE)        \* "
Gt == Token("gt", "", TRUE)              \* >
Close == Token("close", "", TRUE)        \* </script>

IsStatement(t) == t.k \in {"fn", "var", "stmt"}
IsComment(t) == t.k \in {"doc", "cmt"}
\* The kinds of token whose bytes contain the character ">".
GtKinds == {"gt", "close", "tpl", "var"}
ContainsGt(t) == t.k \in GtKinds

Min(S) == CHOOSE x \in S : \A y \in S : x <= y
Max(S) == CHOOSE x \in S : \A y \in S : x >= y

\* JavaScript's s.slice(a, b) and s.slice(a) on offsets.
Slice(s, a, b) == SubSeq(s, a + 1, b)
SliceFrom(s, a) == SubSeq(s, a + 1, Len(s))

\* JavaScript's full.indexOf(content): the first offset where content occurs.
IndexOf(full, content) ==
  LET at == {o \in 0..(Len(full) - Len(content)) :
               Slice(full, o, o + Len(content)) = content}
  IN IF at = {} THEN -1 ELSE Min(at)

\* node.getFullStart() of the statement at token p: the offset after the
\* statement before it.
FullStart(text, p) ==
  LET before == {q \in 1..(p - 1) : IsStatement(text[q])}
  IN IF before = {} THEN 0 ELSE Max(before)

\* The token index of the first statement after offset pos (Len + 1: none).
NextStatement(text, pos) ==
  LET after == {q \in (pos + 1)..Len(text) : IsStatement(text[q])}
  IN IF after = {} THEN Len(text) + 1 ELSE Min(after)

\* ts.getLeadingCommentRanges(text, pos): the comments of the trivia that starts
\* at pos, those before the first line break left out unless pos is 0.
LeadingCommentRanges(text, pos) ==
  {q \in (pos + 1)..(NextStatement(text, pos) - 1) :
     /\ IsComment(text[q])
     /\ (pos = 0 \/ \E r \in (pos + 1)..(q - 1) : text[r].k = "nl")}

\* ts.getTrailingCommentRanges: the comments on the line of the statement they
\* follow.
IsTrailingComment(text, q) ==
  /\ IsComment(text[q])
  /\ FullStart(text, q) # 0
  /\ \A r \in (FullStart(text, q) + 1)..(q - 1) : text[r].k # "nl"

\* Whether the comment's text starts with "/**".
StartsWithDocOpener(t) == t.k = "doc"

\* ts.getJSDocCommentsAndTags(node) for the statement at token p: the JSDoc
\* comments the parser attached to the node, which are the "/**" comments among
\* the leading comment ranges at node.pos.
JSDocCommentsAndTags(text, p) ==
  {q \in LeadingCommentRanges(text, FullStart(text, p)) : StartsWithDocOpener(text[q])}

\* Only a documentation comment on the declaration's own line counts.
hasJSDocOnSameLine(text, p) == p > 1 /\ StartsWithDocOpener(text[p - 1])

\* hasJSDoc(node, sourceText) for the statement at token p.
hasJSDoc(text, p) ==
  \/ JSDocCommentsAndTags(text, p) # {}
  \/ \E q \in LeadingCommentRanges(text, FullStart(text, p)) :
       StartsWithDocOpener(text[q])

\* The kind tag of the node a comment is attached to.
AnchorKind(t) == IF t.k = "fn" THEN "FunctionDeclaration" ELSE "VariableStatement"

\* A key made of the kind tag alone.
makeNodeKeyOfKind(text, p) == <<AnchorKind(text[p])>>

\* makeNodeKey of the node at token p: kind, getStart(), getEnd().
makeNodeKey(text, p) == <<AnchorKind(text[p]), p - 1, p>>

\* ts.isIdentifier(node.name): the name of a declaration is an identifier,
\* or a binding pattern, written "{...}" or "[...]".
isIdentifier(name) == SubSeq(name, 1, 1) \notin {"{", "["}

\* getFunctionNameFromVariable.
getFunctionNameFromVariable(t) == IF isIdentifier(t.n) THEN t.n ELSE "anonymousFunction"

\* Whether collectTargets' walk pushes a target for the node at token p: a
\* function declaration that has a name, or a variable declaration
\* initialised with a function, without a documentation comment.
IsTarget(text, p) ==
  /\ \/ text[p].k = "fn" /\ text[p].n # ""
     \/ text[p].k = "var"
  /\ ~hasJSDoc(text, p)

createTarget(text, p) ==
  [key |-> makeNodeKey(text, p),
   functionName |-> IF text[p].k = "fn" THEN text[p].n
                    ELSE getFunctionNameFromVariable(text[p])]

RECURSIVE CollectFrom(_, _)
CollectFrom(text, p) ==
  IF p > Len(text) THEN <<>>
  ELSE (IF IsTarget(text, p) THEN <<createTarget(text, p)>> ELSE <<>>)
         \o CollectFrom(text, p + 1)

collectTargets(text) == CollectFrom(text, 1)

\* new Map(entries): the comment of the last entry with the key, if any.
MapHas(ents, key) == \E j \in 1..Len(ents) : ents[j].key = key
MapGet(ents, key) == ents[Max({j \in 1..Len(ents) : ents[j].key = key})].comment
MapSize(ents) == Cardinality({ents[j].key : j \in 1..Len(ents)})

\* What printer.printFile writes for token p of the transformed tree: line
\* breaks of the source are not kept; a leading comment keeps the line break
\* that follows it; a synthetic leading comment is written before its node, on
\* lines of its own; a statement is written in the printer's format, followed
\* by its trailing comments and a line break.
PrintToken(text, ents, p) ==
  LET t == text[p]
      trailingFollows == p < Len(text) /\ IsTrailingComment(text, p + 1)
  IN IF t.k = "nl" THEN <<>>
     ELSE IF IsComment(t)
       THEN IF IsTrailingComment(text, p)
              THEN <<t>> \o (IF trailingFollows THEN <<>> ELSE <<NL>>)
              ELSE <<t>> \o (IF p < Len(text) /\ text[p + 1].k = "nl"
                               THEN <<NL>> ELSE <<>>)
     ELSE (IF t.k \in {"fn", "var"} /\ MapHas(ents, makeNodeKey(text, p))
             THEN <<MapGet(ents, makeNodeKey(text, p)), NL>> ELSE <<>>)
          \o <<[t EXCEPT !.c = TRUE]>>
          \o (IF trailingFollows THEN <<>> ELSE <<NL>>)

RECURSIVE PrintFrom(_, _, _)
PrintFrom(text, ents, p) ==
  IF p > Len(text) THEN <<>>
  ELSE PrintToken(text, ents, p) \o PrintFrom(text, ents, p + 1)

printFile(text, ents) == PrintFrom(text, ents, 1)

(***************************************************************************)
(* Vue single-file components                                              *)
(***************************************************************************)
\* The first token at or after index i whose kind is in kinds (0: none).
RECURSIVE Find(_, _, _)
Find(text, i, kinds) ==
  IF i > Len(text) THEN 0
  ELSE IF text[i].k \in kinds THEN i
  ELSE Find(text, i + 1, kinds)

\* The match of /<script\b[^>]*>([\s\S]*?)<\/script\s*>/i, looked for from
\* token i on: the first "<script" that is followed by a ">" and then by a
\* "</script>"; first, gt and last are the token indices of "<script", of the
\* ">" that ends the opening tag and of the closing tag.
RECURSIVE ScriptMatch(_, _)
ScriptMatch(text, i) ==
  LET first == Find(text, i, {"open"})
      stop == IF first = 0 THEN 0 ELSE Find(text, first + 1, GtKinds)
      gt == IF stop # 0 /\ text[stop].k = "gt" THEN stop ELSE 0
      close == IF gt = 0 THEN 0 ELSE Find(text, gt + 1, {"close"})
  IN IF first = 0 THEN None
     ELSE IF close # 0 THEN Some([first |-> first, gt |-> gt, last |-> close])
     ELSE ScriptMatch(text, first + 1)

\* extractVueScript: offsets count tokens; the content's offset in the match is
\* found with indexOf.
extractVueScript(text) ==
  LET match == ScriptMatch(text, 1)
  IN IF ~IsSet(match) THEN None
     ELSE LET m == Val(match)
              full == SubSeq(text, m.first, m.last)
              content == SubSeq(text, m.gt + 1, m.last - 1)
              contentOffset == IndexOf(full, content)
              fullStart == m.first - 1
              contentStart == fullStart + contentOffset
          IN Some([openTag |-> Slice(full, 0, contentOffset),
                   content |-> content,
                   contentStart |-> contentStart,
                   contentEnd |-> contentStart + Len(content)])

StartsWithNL(s) == Len(s) > 0 /\ s[1].k = "nl"
EndsWithNL(s) == Len(s) > 0 /\ s[Len(s)].k = "nl"

\* transformCode, lines 197-214: the printed script put back into the Vue file.
SpliceVue(original, range, transformed) ==
  LET content == Slice(original, range.start, range.end)
      t1 == IF StartsWithNL(content) /\ ~StartsWithNL(transformed)
              THEN <<NL>> \o transformed ELSE transformed
      t2 == IF EndsWithNL(content) /\ ~EndsWithNL(t1) THEN t1 \o <<NL>> ELSE t1
  IN Slice(original, 0, range.start) \o t2 \o SliceFrom(original, range.end)

\* transformCode's sourceCode: the text handed to the parser (None: a Vue file
\* without a script block, returned as it is).
SourceCode(ext, original) ==
  IF ext = ".vue"
    THEN LET vueScript == extractVueScript(original)
         IN IF IsSet(vueScript) THEN Some(Val(vueScript).content) ELSE None
    ELSE Some(original)

\* transformCode from line 166 on: the text it returns once the comment map
\* is built.
Patch(ext, original, ents) ==
  IF MapSize(ents) = 0 THEN original
  ELSE LET transformed == printFile(Val(SourceCode(ext, original)), ents)
       IN IF ext = ".vue"
            THEN LET v == Val(extractVueScript(original))
                 IN SpliceVue(original, [start |-> v.contentStart, end |-> v.contentEnd],
                              transformed)
            ELSE transformed

(***************************************************************************)
(* AI descriptions                                                         *)
(***************************************************************************)
\* A string under construction is a sequence of pieces; "\n" is a line break
\* and " " a blank.
Whitespace == {" ", "\n"}

\* content.replace(/[\r\n]+/g, " ")
RECURSIVE CollapseNewlines(_)
CollapseNewlines(s) ==
  IF s = <<>> THEN <<>>
  ELSE IF Head(s) = "\n"
    THEN (IF Len(s) > 1 /\ s[2] = "\n" THEN CollapseNewlines(Tail(s))
          ELSE <<" ">> \o CollapseNewlines(Tail(s)))
    ELSE <<Head(s)>> \o CollapseNewlines(Tail(s))

\* String.prototype.trim
RECURSIVE TrimStart(_)
TrimStart(s) ==
  IF s # <<>> /\ Head(s) \in Whitespace THEN TrimStart(Tail(s)) ELSE s

RECURSIVE TrimEnd(_)
TrimEnd(s) ==
  IF s # <<>> /\ s[Len(s)] \in Whitespace THEN TrimEnd(SubSeq(s, 1, Len(s) - 1)) ELSE s

Trim(s) == TrimEnd(TrimStart(s))

\* The string the pieces make.
RECURSIVE Concat(_)
Concat(s) == IF s = <<>> THEN "" ELSE Head(s) \o Concat(Tail(s))

\* What a function that may throw did: the value it returned, or threw.
Returned(v) == [threw |-> FALSE, value |-> v]
Thrown == [threw |-> TRUE, value |-> None]
Undefined == Returned(None)

\* An endpoint is the base URL and what is appended to it.
OpenAIEndpoint(baseUrl) == [base |-> baseUrl, path |-> ""]

\* A string that holds a surrogate without its pair: encodeURIComponent throws
\* a URIError on it.
UnpairedSurrogate == "\\uD800"
Encodable(str) == str # UnpairedSurrogate

\* buildGeminiEndpoint, for a model and a key encodeURIComponent accepts.
buildGeminiEndpoint(baseUrl, model, apiKey) ==
  [base |-> baseUrl, path |-> "/models/" \o model \o ":generateContent?key=" \o apiKey]

\* The base URLs new URL(...) accepts.
AbsoluteUrls ==
  {OPENAI_AI_DEFAULTS.baseUrl, GEMINI_AI_DEFAULTS.baseUrl, "http://localhost/ai"}

ValidUrl(endpoint) == endpoint.base \in AbsoluteUrls

\* What can come back for one request.
Outcomes ==
  {Outcome(k, None) : k \in {"timeout", "transport", "http", "badJson"}}
    \cup {Outcome("ok", c) : c \in {None, Some(<<>>), Some(<<"\n", " ">>),
                                    Some(<<"Adds", "\n", "\n", "numbers", "\n">>)}}

\* postJson: new URL throws on a malformed endpoint before a request is made;
\* otherwise the promise resolves with the parsed body or rejects.
postJson(endpoint, outcome) ==
  IF ~ValidUrl(endpoint) THEN [state |-> "thrown", response |-> None]
  ELSE IF outcome.kind = "ok" THEN [state |-> "resolved", response |-> outcome.content]
  ELSE [state |-> "rejected", response |-> None]

requestDescriptionFromOpenAI(aiConfig, outcome) ==
  LET r == postJson(OpenAIEndpoint(Val(aiConfig.baseUrl)), outcome)
  IN IF r.state # "resolved" THEN Undefined
     ELSE IF ~IsSet(r.response) THEN Undefined
     ELSE Returned(Some(Concat(Trim(CollapseNewlines(Val(r.response))))))

\* requestDescriptionFromGemini; the body holds one part, whose text is the
\* content. The endpoint is built before the try block.
requestDescriptionFromGemini(aiConfig, outcome) ==
  IF ~TruthyStr(aiConfig.apiKey) THEN Undefined
  ELSE IF ~Encodable(Val(aiConfig.model)) \/ ~Encodable(Val(aiConfig.apiKey)) THEN Thrown
  ELSE LET endpoint == buildGeminiEndpoint(Val(aiConfig.baseUrl), Val(aiConfig.model),
                                           Val(aiConfig.apiKey))
           r == postJson(endpoint, outcome)
       IN IF r.state # "resolved" THEN Undefined
          ELSE IF ~IsSet(r.response) THEN Undefined
          ELSE LET content == Trim(Val(r.response))
               IN IF content = <<>> THEN Undefined
                  ELSE Returned(Some(Concat(Trim(CollapseNewlines(content)))))

requestDescriptionFromAI(aiConfig, outcome) ==
  IF ~TruthyStr(aiConfig.apiKey) THEN Undefined
  ELSE IF Val(aiConfig.provider) = "gemini"
    THEN requestDescriptionFromGemini(aiConfig, outcome)
    ELSE requestDescriptionFromOpenAI(aiConfig, outcome)

Fallback(functionName) == functionName \o " function"

createDescription(functionName, cfg, outcome) ==
  IF ~Val(cfg.ai.enabled) \/ ~TruthyStr(cfg.ai.apiKey)
    THEN Returned(Some(Fallback(functionName)))
  ELSE LET aiDescription == requestDescriptionFromAI(cfg.ai, outcome)
       IN IF aiDescription.threw THEN Thrown
          ELSE IF ~TruthyStr(aiDescription.value)
            THEN Returned(Some(Fallback(functionName)))
          ELSE aiDescription

\* The endpoint createDescription's request goes to.
Endpoint(ai) ==
  IF Val(ai.provider) = "gemini"
    THEN buildGeminiEndpoint(Val(ai.baseUrl), Val(ai.model), Val(ai.apiKey))
    ELSE OpenAIEndpoint(Val(ai.baseUrl))

\* Whether the endpoint of the request can be built and parsed.
HasEndpoint(ai) ==
  /\ Val(ai.provider) = "gemini" => (Encodable(Val(ai.model)) /\ Encodable(Val(ai.apiKey)))
  /\ ValidUrl(Endpoint(ai))

\* A request goes out whatever the enabled flag says, when there is a key.
IssuesRequestWithKey(cfg) ==
  TruthyStr(cfg.ai.apiKey) /\ HasEndpoint(cfg.ai)

\* Whether createDescription gets as far as https.request.
IssuesRequest(cfg) ==
  /\ Val(cfg.ai.enabled)
  /\ TruthyStr(cfg.ai.apiKey)
  /\ HasEndpoint(cfg.ai)

\* formatTemplate on the description line, for the templates of the model: the
\* default one holds the {{description}} placeholder, the others hold none.
FormatDescriptionLine(template, description) ==
  IF template = Val(DEFAULT_CONFIG.template.descriptionLine)
    THEN "@description " \o description
    ELSE template

\* createJSDocComment: of the comment's lines the model keeps the first.
createJSDocComment(functionName, description, cfg) ==
  Doc(FormatDescriptionLine(Val(cfg.template.descriptionLine), description))

(***************************************************************************)
(* The annotate-in-place pipeline: generateJSDoc applied to a file, and     *)
(* applied again to what the first application left.                        *)
(***************************************************************************)
\* Longest script, in tokens.
MaxLen == 3

Alphabet ==
  {FnDecl("sum", FALSE), VarStmt("add", TRUE), OtherStmt, NL, Doc("user"), Cmt}

RECURSIVE Scripts(_)
Scripts(n) ==
  IF n = 0 THEN {<<>>}
  ELSE Scripts(n - 1) \cup {Append(t, a) : t \in Scripts(n - 1), a \in Alphabet}

\* The files a script comes in: a TypeScript file; a Vue file with a template
\* before the script block and a style block after it; a Vue file whose
\* script tag has an attribute and that holds a second script block; a Vue
\* file whose script tag has an attribute with the script's text as its
\* value; a Vue file without a script block.
Forms == {"ts", "vue", "vue-two", "vue-attr", "vue-none"}

Applicable(form, script) ==
  CASE form = "vue-attr" -> \A i \in 1..Len(script) : ~ContainsGt(script[i])
    [] form = "vue-none" -> script = <<>>
    [] OTHER -> TRUE

Wrap(form, script) ==
  CASE form = "ts" -> script
    [] form = "vue" -> <<Tpl, NL, Open, Gt>> \o script \o <<Close, NL, Tpl>>
    [] form = "vue-two" ->
         <<Open, Attr, Gt>> \o script
           \o <<Close, NL, Open, Gt, FnDecl("late", FALSE), Close>>
    [] form = "vue-attr" ->
         <<Open, AttrQ>> \o script \o <<Quote, Gt>> \o script \o <<Close>>
    [] form = "vue-none" -> <<Tpl, NL, Tpl>>

Ext(form) == IF form = "ts" THEN ".ts" ELSE ".vue"

Inline(settings) ==
  [EmptyConfig EXCEPT !.ai = [f \in AiFields |->
     IF f \in DOMAIN settings THEN Some(settings[f]) ELSE None]]

\* The options of the runs: the defaults; AI on with an OpenAI key; AI on for
\* Gemini with the key in the environment; AI on without any key; AI on with
\* a key and a malformed endpoint; AI on in the config and the disable flag;
\* AI on for Gemini with a model name that cannot be encoded.
PipelineOptions ==
  {[configFile |-> NoFile, config |-> EmptyConfig, disableAI |-> FALSE, env |-> NoEnv],
   [configFile |-> NoFile, config |-> Inline([enabled |-> TRUE, apiKey |-> "key"]),
    disableAI |-> FALSE, env |-> NoEnv],
   [configFile |-> NoFile, config |-> Inline([enabled |-> TRUE, provider |-> "gemini"]),
    disableAI |-> FALSE,
    env |-> [OPENAI_API_KEY |-> "", GEMINI_API_KEY |-> "env-gemini", GOOGLE_API_KEY |-> ""]],
   [configFile |-> NoFile, config |-> Inline([enabled |-> TRUE]),
    disableAI |-> FALSE, env |-> NoEnv],
   [configFile |-> NoFile,
    config |-> Inline([enabled |-> TRUE, apiKey |-> "key", baseUrl |-> "not a url"]),
    disableAI |-> FALSE, env |-> NoEnv],
   [configFile |-> NoFile, config |-> Inline([enabled |-> TRUE, apiKey |-> "key"]),
    disableAI |-> TRUE, env |-> NoEnv],
   [configFile |-> NoFile,
    config |-> Inline([enabled |-> TRUE, provider |-> "gemini", apiKey |-> "key",
                       model |-> UnpairedSurrogate]),
    disableAI |-> FALSE, env |-> NoEnv]}

Init ==
  /\ options \in PipelineOptions
  /\ config = NoConfig
  /\ pc = "start"
  /\ \E form \in Forms, script \in Scripts(MaxLen) :
       /\ Applicable(form, script)
       /\ filePath = [ext |-> Ext(form)]
       /\ file = Wrap(form, script)
  /\ writes = 0
  /\ pass = 1
  /\ input1 = <<>>
  /\ output1 = <<>>
  /\ originalCode = <<>>
  /\ targets = <<>>
  /\ entries = <<>>
  /\ inflight = {}
  /\ requests = <<>>
  /\ last = NoLast
  /\ output = <<>>
  /\ result = "pending"
  /\ remote = "silent"
  /\ log = <<>>
  /\ IdleInfer
  /\ IdleConcurrent
  /\ IdleVite
  /\ IdleFormat

\* generateJSDoc up to buildCommentMap's loop: the file is read, the config
\* loaded, the script found and parsed, the targets collected. A Vue file
\* without a script block is returned as it is.
Begin ==
  /\ pc = "start"
  /\ config' = loadConfig(options)
  /\ originalCode' = file
  /\ input1' = IF pass = 1 THEN file ELSE input1
  /\ entries' = <<>>
  /\ inflight' = {}
  /\ requests' = <<>>
  /\ last' = NoLast
  /\ LET sourceCode == SourceCode(filePath.ext, file)
     IN IF IsSet(sourceCode)
          THEN /\ targets' = collectTargets(Val(sourceCode))
               /\ output' = <<>>
               /\ result' = "pending"
               /\ pc' = "build"
          ELSE /\ targets' = <<>>
               /\ output' = file
               /\ result' = "resolved"
               /\ pc' = "returned"
  /\ UNCHANGED <<options, filePath, file, writes, pass, output1, remote, log, sideVars>>

\* The loop of buildCommentMap reaches target i once the iterations before it
\* are over: every await of the loop has returned.
CanStartConcurrently(i) ==
  /\ i \in 1..Len(targets)
  /\ i \notin inflight
  /\ \A j \in 1..Len(requests) : requests[j] # i
  /\ \A j \in 1..Len(entries) : entries[j].key # targets[i].key

CanStart(i) ==
  /\ i \in 1..Len(targets)
  /\ i = Len(entries) + 1
  /\ inflight = {}

\* The iteration is taken again when it ended on the fallback description.
PushUnlessFallback(i, description) ==
  IF description.threw
    THEN /\ result' = "rejected"
         /\ pc' = "done"
         /\ UNCHANGED entries
    ELSE IF Val(description.value) = Fallback(targets[i].functionName)
      THEN UNCHANGED <<entries, result, pc>>
    ELSE /\ entries' = Append(entries,
              [key |-> targets[i].key,
               description |-> Val(description.value),
               comment |-> createJSDocComment(targets[i].functionName,
                                              Val(description.value), config)])
         /\ UNCHANGED <<result, pc>>

\* The iteration's entry, or the rejection of the run when the description
\* threw.
Push(i, description) ==
  IF description.threw
    THEN /\ result' = "rejected"
         /\ pc' = "done"
         /\ UNCHANGED entries
    ELSE /\ entries' = Append(entries,
              [key |-> targets[i].key,
               description |-> Val(description.value),
               comment |-> createJSDocComment(targets[i].functionName,
                                              Val(description.value), config)])
         /\ UNCHANGED <<result, pc>>

\* One iteration of buildCommentMap that makes no request: AI is off, or there
\* is no key, or the endpoint is malformed.
Describe ==
  /\ pc = "build"
  /\ ~IssuesRequest(config)
  /\ \E i \in 1..Len(targets) :
       /\ CanStart(i)
       /\ Push(i, createDescription(targets[i].functionName, config, NoOutcome))
  /\ UNCHANGED <<options, config, filePath, file, writes, pass, input1, output1,
                 originalCode, targets, inflight, requests, last, output, remote, log, sideVars>>

\* One iteration of buildCommentMap up to its await: the request goes out.
Request ==
  /\ pc = "build"
  /\ IssuesRequest(config)
  /\ \E i \in 1..Len(targets) :
       /\ CanStart(i)
       /\ inflight' = inflight \cup {i}
       /\ requests' = Append(requests, i)
  /\ remote' = "silent"
  /\ UNCHANGED <<options, config, pc, filePath, file, writes, pass, input1, output1,
                 originalCode, targets, entries, last, output, result, log, sideVars>>

\* The remote service sends a piece of its response: the socket is active,
\* and the inactivity timer that req.setTimeout armed starts over.
Receive ==
  /\ pc = "build"
  /\ inflight # {}
  /\ remote' = IF remote = "sending" THEN "sending more" ELSE "sending"
  /\ UNCHANGED <<options, config, pc, filePath, file, writes, pass, input1, output1,
                 originalCode, targets, entries, inflight, requests, last, output,
                 result, log, sideVars>>

\* The remote service stops sending before its response is complete.
Lull ==
  /\ pc = "build"
  /\ inflight # {}
  /\ remote # "silent"
  /\ remote' = "silent"
  /\ UNCHANGED <<options, config, pc, filePath, file, writes, pass, input1, output1,
                 originalCode, targets, entries, inflight, requests, last, output,
                 result, log, sideVars>>

\* The request in flight settles and the iteration ends. Nothing is written
\* to the console.
Settle(outcome) ==
  /\ pc = "build"
  /\ \E i \in inflight :
       /\ inflight' = inflight \ {i}
       /\ last' = [target |-> i, outcome |-> outcome]
       /\ Push(i, createDescription(targets[i].functionName, config, outcome))
  /\ remote' = "silent"
  /\ UNCHANGED <<options, config, filePath, file, writes, pass, input1, output1,
                 originalCode, targets, requests, output, log, sideVars>>

\* The socket has been inactive for timeoutMs: the request is destroyed and
\* its promise rejects.
Timeout ==
  /\ remote = "silent"
  /\ Settle(Outcome("timeout", None))

\* The response ends, or the connection breaks: the promise resolves with the
\* parsed body or rejects.
Respond ==
  \E outcome \in Outcomes : outcome.kind # "timeout" /\ Settle(outcome)

\* transformCode from line 166 on, once buildCommentMap has returned.
PatchStep ==
  /\ pc = "build"
  /\ Len(entries) = Len(targets)
  /\ inflight = {}
  /\ output' = Patch(filePath.ext, originalCode, entries)
  /\ result' = "resolved"
  /\ pc' = "returned"
  /\ UNCHANGED <<options, config, filePath, file, writes, pass, input1, output1,
                 originalCode, targets, entries, inflight, requests, last, remote, log, sideVars>>

\* Every call writes the file.
AlwaysWrite(updatedCode, sourceCode) == TRUE

\* generateJSDoc, line 118.
ShouldWrite(updatedCode, sourceCode) == updatedCode # sourceCode

\* generateJSDoc after the await: the file is written if the text changed.
Finish ==
  /\ pc = "returned"
  /\ IF ShouldWrite(output, originalCode)
       THEN file' = output /\ writes' = writes + 1
       ELSE UNCHANGED <<file, writes>>
  /\ output1' = IF pass = 1 THEN output ELSE output1
  /\ pc' = "done"
  /\ UNCHANGED <<options, config, filePath, pass, input1, originalCode, targets,
                 entries, inflight, requests, last, output, result, remote, log, sideVars>>

\* generateJSDoc is called again on the file the first call left.
Again ==
  /\ pc = "done"
  /\ pass = 1
  /\ result = "resolved"
  /\ pass' = 2
  /\ pc' = "start"
  /\ UNCHANGED <<options, config, filePath, file, writes, input1, output1,
                 originalCode, targets, entries, inflight, requests, last, output,
                 result, remote, log, sideVars>>

Next ==
  \/ Begin \/ Describe \/ Request \/ Receive \/ Lull \/ Timeout \/ Respond
  \/ PatchStep \/ Finish \/ Again

Spec == Init /\ [][Next]_vars

\* The runs whose progress is followed: a TypeScript file of at most one
\* statement, with the defaults or with AI on and a key.
InitLive ==
  /\ Init
  /\ filePath.ext = ".ts"
  /\ Len(file) <= 1
  /\ options.config \in {EmptyConfig, Inline([enabled |-> TRUE, apiKey |-> "key"])}
  /\ ~options.disableAI

\* A step of the program itself, as opposed to one of the remote service.
Program ==
  Begin \/ Describe \/ Request \/ Timeout \/ PatchStep \/ Finish \/ Again

\* The scheduling of a run: the event loop takes the step of the program that
\* stays possible, a socket on which nothing more arrives falls silent, and
\* the inactivity timer fires when the socket stays silent. What the remote
\* service sends, and when, is under no obligation.
FairSpec == InitLive /\ [][Next]_vars /\ WF_vars(Program) /\ WF_vars(Lull)

(***************************************************************************)
(* collectTargets on the parsed script alone, over declarations of every    *)
(* form the walk meets.                                                     *)
(***************************************************************************)
\* export default function () {}
DefaultFn == FnDecl("", TRUE)
\* const { length } = function (a, b) {};
PatternStmt == VarStmt("{length}", TRUE)

CollectAlphabet ==
  {FnDecl("sum", TRUE), DefaultFn, VarStmt("add", TRUE), PatternStmt,
   OtherStmt, NL, Doc("user"), Cmt}

CollectScripts ==
  UNION {[1..n -> CollectAlphabet] : n \in 0..MaxLen}

InitCollect ==
  /\ options \in {o \in PipelineOptions : o.disableAI}
  /\ config = NoConfig
  /\ pc = "parsed"
  /\ filePath = [ext |-> ".ts"]
  /\ file \in CollectScripts
  /\ writes = 0
  /\ pass = 1
  /\ input1 = <<>>
  /\ output1 = <<>>
  /\ originalCode = <<>>
  /\ targets = <<>>
  /\ entries = <<>>
  /\ inflight = {}
  /\ requests = <<>>
  /\ last = NoLast
  /\ output = <<>>
  /\ result = "pending"
  /\ remote = "silent"
  /\ log = <<>>
  /\ IdleInfer
  /\ IdleConcurrent
  /\ IdleVite
  /\ IdleFormat

\* collectTargets(sourceFile, sourceText, checker).
Collect ==
  /\ pc = "parsed"
  /\ originalCode' = file
  /\ targets' = collectTargets(file)
  /\ pc' = "collected"
  /\ UNCHANGED <<options, config, filePath, file, writes, pass, input1, output1,
                 entries, inflight, requests, last, output, result, remote, log,
                 sideVars>>

NextCollect == Collect

SpecCollect == InitCollect /\ [][NextCollect]_vars

(***************************************************************************)
(* Type inference: inferParameterType and inferReturnTypeText on one         *)
(* function-like declaration.                                               *)
(***************************************************************************)
\* Most parameters of a declaration.
MaxParams == 2

\* Type annotations as written: a keyword, a generic array, an alias
\* (type Id = string), a name that is declared nowhere, the empty object type.
Annotations == {"number", "Array<number>", "Id", "Missing", "{}"}

\* checker.typeToString of the type an annotation denotes.
TypeToString(annotation) ==
  CASE annotation = "number" -> "number"
    [] annotation = "Array<number>" -> "number[]"
    [] annotation = "Id" -> "string"
    [] annotation = "Missing" -> "any"
    [] annotation = "{}" -> "{}"

\* Expressions: a numeric literal, a string literal, an identifier, await x.
Num == [kind |-> "num", text |-> "1"]
Str == [kind |-> "str", text |-> "'s'"]
Identifier(text) == [kind |-> "id", text |-> text]
Await == [kind |-> "await", text |-> "x"]
\* left + right, and condition ? whenTrue : whenFalse.
Plus(left, right) == [kind |-> "plus", left |-> left, right |-> right]
Conditional(whenTrue, whenFalse) ==
  [kind |-> "cond", whenTrue |-> whenTrue, whenFalse |-> whenFalse]

\* The parameters are called a, b, c, d in order; nothing is called x.
ParamNames == <<"a", "b", "c", "d">>

Expressions == {Num, Str, Identifier("a"), Identifier("x"), Await}

\* Parameter declarations: annotated, with an initializer, a rest parameter,
\* or bare.
Param(type, initializer, rest) ==
  [type |-> type, initializer |-> initializer, dotDotDotToken |-> rest]

Params ==
  {Param(Some(t), None, FALSE) : t \in Annotations}
    \cup {Param(None, Some(e), FALSE) : e \in {Num, Str, Identifier("a")}}
    \cup {Param(None, None, TRUE), Param(None, None, FALSE)}

RECURSIVE ParamLists(_)
ParamLists(n) ==
  IF n = 0 THEN {<<>>}
  ELSE ParamLists(n - 1) \cup {Append(l, q) : l \in ParamLists(n - 1), q \in Params}

\* Bodies: a block, as the return statements it holds in order (None: a bare
\* return) followed by the nodes nested in it, or the expression of an
\* expression-bodied arrow function. A nested node is its kind, the return
\* statements it holds and the nodes nested in it.
Block(returns) == [block |-> TRUE, returns |-> returns, nested |-> <<>>]
Concise(expression) ==
  [block |-> FALSE, returns |-> <<Some(expression)>>, nested |-> <<>>]
BlockWith(returns, nested) == [block |-> TRUE, returns |-> returns, nested |-> nested]
Node(kind, returns, nested) == [kind |-> kind, returns |-> returns, nested |-> nested]

\* Arrow functions are walked into.
isFunctionLikeButArrow(kind) ==
  kind \in {"FunctionDeclaration", "FunctionExpression", "MethodDeclaration",
            "GetAccessor", "SetAccessor", "Constructor"}

isFunctionLike(kind) ==
  kind \in {"FunctionDeclaration", "FunctionExpression", "ArrowFunction",
            "MethodDeclaration", "GetAccessor", "SetAccessor", "Constructor"}

\* The walk of inferReturnTypeText over a node that is not the function
\* itself: the return statements met, in order.
RECURSIVE walk(_)
RECURSIVE walkEach(_)
walkEach(nodes) ==
  IF nodes = <<>> THEN <<>> ELSE walk(Head(nodes)) \o walkEach(Tail(nodes))

walk(current) ==
  IF isFunctionLike(current.kind) THEN <<>>
  ELSE current.returns \o walkEach(current.nested)

Bodies ==
  {Block(<<>>), Block(<<None>>)}
    \cup {Block(<<Some(e)>>) : e \in Expressions}
    \cup {Concise(e) : e \in Expressions}

Fns == [checker : BOOLEAN, async : BOOLEAN, parameters : ParamLists(MaxParams),
        type : {None} \cup {Some(t) : t \in Annotations}, body : Bodies]

\* String.prototype.startsWith.
startsWith(text, prefix) ==
  Len(text) >= Len(prefix) /\ SubSeq(text, 1, Len(prefix)) = prefix

\* The parameterTypes map: the type recorded for a name ("" when there is none).
MapLookup(parameterTypes, name) ==
  IF \E i \in 1..Len(parameterTypes) : ParamNames[i] = name
    THEN parameterTypes[CHOOSE i \in 1..Len(parameterTypes) : ParamNames[i] = name]
    ELSE ""

\* number wins over string.
plusTypeNumberFirst(left, right) ==
  IF left = "number" \/ right = "number" THEN "number"
  ELSE IF left = "string" /\ right = "string" THEN "string"
  ELSE "any"

\* inferExpressionType, the PlusToken branch.
plusType(left, right) ==
  IF left = "string" \/ right = "string" THEN "string"
  ELSE IF left = "number" /\ right = "number" THEN "number"
  ELSE "any"

RECURSIVE inferExpressionType(_, _)
inferExpressionType(expression, parameterTypes) ==
  CASE expression.kind = "num" -> "number"
    [] expression.kind = "str" -> "string"
    [] expression.kind = "id" ->
         IF MapLookup(parameterTypes, expression.text) # ""
           THEN MapLookup(parameterTypes, expression.text)
           ELSE "any"
    [] expression.kind = "plus" ->
         plusType(inferExpressionType(expression.left, parameterTypes),
                  inferExpressionType(expression.right, parameterTypes))
    [] expression.kind = "await" -> "Promise<any>"
    [] expression.kind = "cond" ->
         LET whenTrue == inferExpressionType(expression.whenTrue, parameterTypes)
             whenFalse == inferExpressionType(expression.whenFalse, parameterTypes)
         IN IF whenTrue = whenFalse THEN whenTrue
            ELSE whenTrue \o " | " \o whenFalse

\* checker.typeToString(checker.getTypeAtLocation(param)) for parameter i of a
\* list: an identifier in an initializer denotes the parameter of that name
\* declared before it, and has type any when there is none.
RECURSIVE CheckerParameterType(_, _)
CheckerParameterType(parameters, i) ==
  LET param == parameters[i]
  IN IF IsSet(param.type) THEN TypeToString(Val(param.type))
     ELSE IF IsSet(param.initializer)
       THEN LET e == Val(param.initializer)
            IN CASE e.kind = "num" -> "number"
                 [] e.kind = "str" -> "string"
                 [] e.kind = "id" ->
                      IF \E j \in 1..(i - 1) : ParamNames[j] = e.text
                        THEN CheckerParameterType(parameters,
                               CHOOSE j \in 1..(i - 1) : ParamNames[j] = e.text)
                        ELSE "any"
     ELSE IF param.dotDotDotToken THEN "any[]"
     ELSE "any"

\* checker.typeToString of the widened type of an expression of the body.
CheckerExpressionType(expression, parameters) ==
  CASE expression.kind = "num" -> "number"
    [] expression.kind = "str" -> "string"
    [] expression.kind = "id" ->
         IF \E j \in 1..Len(parameters) : ParamNames[j] = expression.text
           THEN CheckerParameterType(parameters,
                  CHOOSE j \in 1..Len(parameters) : ParamNames[j] = expression.text)
           ELSE "any"
    [] expression.kind = "await" -> "any"

\* The annotation is read before the checker is asked.
inferParameterTypeSyntaxFirst(parameters, i, checker) ==
  LET param == parameters[i]
      typeText == CheckerParameterType(parameters, i)
  IN IF IsSet(param.type) THEN Val(param.type)
     ELSE IF checker /\ typeText # "" /\ typeText # "{}" THEN typeText
     ELSE IF IsSet(param.initializer)
       THEN inferExpressionType(Val(param.initializer), <<>>)
     ELSE IF param.dotDotDotToken THEN "Array<any>"
     ELSE "any"

inferParameterType(parameters, i, checker) ==
  LET param == parameters[i]
      typeText == CheckerParameterType(parameters, i)
  IN IF checker /\ typeText # "" /\ typeText # "{}" THEN typeText
     ELSE IF IsSet(param.type) THEN Val(param.type)
     ELSE IF IsSet(param.initializer)
       THEN inferExpressionType(Val(param.initializer), <<>>)
     ELSE IF param.dotDotDotToken THEN "Array<any>"
     ELSE "any"

getParameterTypeMap(parameters, checker) ==
  [i \in 1..Len(parameters) |-> inferParameterType(parameters, i, checker)]

\* checker.typeToString(checker.getReturnTypeOfSignature(signature)): the
\* declared type, or the type of what the body returns, which an async
\* function delivers in a Promise.
CheckerReturnType(node) ==
  IF IsSet(node.type) THEN TypeToString(Val(node.type))
  ELSE LET returns == node.body.returns
           returned ==
             IF returns = <<>> \/ returns = <<None>> THEN "void"
             ELSE CheckerExpressionType(Val(returns[1]), node.parameters)
       IN IF node.async THEN "Promise<" \o returned \o ">" ELSE returned

finalizeReturnType(inferredType, node) ==
  IF ~node.async THEN inferredType
  ELSE IF startsWith(inferredType, "Promise<") THEN inferredType
  ELSE "Promise<" \o inferredType \o ">"

\* The types of the return statements, in order, each once.
RECURSIVE ReturnTypes(_, _)
ReturnTypes(returns, parameterTypes) ==
  IF returns = <<>> THEN <<>>
  ELSE LET rest == ReturnTypes(SubSeq(returns, 1, Len(returns) - 1), parameterTypes)
           t == IF IsSet(returns[Len(returns)])
                  THEN inferExpressionType(Val(returns[Len(returns)]), parameterTypes)
                  ELSE "void"
       IN IF \E i \in 1..Len(rest) : rest[i] = t THEN rest ELSE Append(rest, t)

RECURSIVE JoinTypes(_)
JoinTypes(types) ==
  IF Len(types) = 1 THEN types[1]
  ELSE types[1] \o " | " \o JoinTypes(Tail(types))

inferReturnTypeText(node) ==
  LET typeText == CheckerReturnType(node)
      parameterTypes == getParameterTypeMap(node.parameters, node.checker)
      returnTypes == ReturnTypes(node.body.returns \o walkEach(node.body.nested),
                                 parameterTypes)
      types == SelectSeq(returnTypes, LAMBDA t : t # "void")
  IN IF node.checker /\ typeText # "" /\ typeText # "{}" THEN typeText
     ELSE IF IsSet(node.type) THEN Val(node.type)
     ELSE IF ~node.body.block
       THEN finalizeReturnType(
              inferExpressionType(Val(node.body.returns[1]), parameterTypes), node)
     ELSE IF returnTypes = <<>> THEN "void"
     ELSE IF types = <<>> THEN finalizeReturnType("void", node)
     ELSE finalizeReturnType(JoinTypes(types), node)

\* The returns line is left out of a comment whose return type is void.
createJSDocCommentLinesNoVoid(parameters, returnType, cfg) ==
  <<[template |-> "descriptionLine", type |-> returnType]>>
    \o [i \in 1..Len(parameters) |-> [template |-> "paramLine", type |-> parameters[i]]]
    \o (IF returnType # "void"
          THEN <<[template |-> "returnsLine", type |-> returnType]>>
          ELSE <<>>)

\* createJSDocComment, the lines of the comment: each is the template it was
\* formatted from and the type it was formatted with.
createJSDocCommentLines(parameters, returnType, cfg) ==
  <<[template |-> "descriptionLine", type |-> returnType]>>
    \o [i \in 1..Len(parameters) |-> [template |-> "paramLine", type |-> parameters[i]]]
    \o (IF Val(cfg.includeReturnsWhenVoid) \/ returnType # "void"
          THEN <<[template |-> "returnsLine", type |-> returnType]>>
          ELSE <<>>)

\* The options of the inference: the defaults, and returns lines for void
\* turned off.
InferOptions ==
  {[configFile |-> NoFile, config |-> EmptyConfig, disableAI |-> FALSE, env |-> NoEnv],
   [configFile |-> NoFile,
    config |-> [EmptyConfig EXCEPT !.includeReturnsWhenVoid = Some(FALSE)],
    disableAI |-> FALSE, env |-> NoEnv]}

InitInfer ==
  /\ options \in InferOptions
  /\ config = NoConfig
  /\ pc = "infer"
  /\ IdlePipeline
  /\ fn \in Fns
  /\ inferred = NoInferred
  /\ IdleConcurrent
  /\ IdleVite
  /\ IdleFormat

\* loadConfig, collectTargets and buildCommentMap on one declaration: the
\* types that go into its comment, and the comment's lines.
Infer ==
  /\ pc = "infer"
  /\ config' = loadConfig(options)
  /\ LET parameters == getParameterTypeMap(fn.parameters, fn.checker)
         returnType == inferReturnTypeText(fn)
     IN inferred' = [parameters |-> parameters,
                     returnType |-> returnType,
                     lines |-> createJSDocCommentLines(parameters, returnType,
                                                       loadConfig(options))]
  /\ pc' = "inferred"
  /\ UNCHANGED <<options, pipelineVars, fn, concurrentVars, viteVars, formatVars>>

NextInfer == Infer

SpecInfer == InitInfer /\ [][NextInfer]_vars

(***************************************************************************)
(* The syntactic inference of the return type, over bodies with several    *)
(* return statements and nested nodes, without a checker and without        *)
(* annotations.                                                             *)
(***************************************************************************)
\* Most return statements directly in a body.
MaxReturns == 2

ReturnExpressions ==
  {Num, Str, Identifier("a"), Identifier("b"),
   Plus(Identifier("a"), Identifier("b")), Plus(Identifier("a"), Str),
   Plus(Num, Num), Conditional(Num, Str)}

ReturnStatements == {None} \cup {Some(e) : e \in ReturnExpressions}

NodeKinds ==
  {"FunctionDeclaration", "FunctionExpression", "ArrowFunction",
   "MethodDeclaration", "GetAccessor", "SetAccessor", "Constructor",
   "IfStatement"}

\* if (...) { return 's'; } and () => { return 's'; }, nested one level down.
InnerNodes ==
  {Node(k, <<Some(Str)>>, <<>>) : k \in {"ArrowFunction", "IfStatement"}}

NestedNodes ==
  {Node(k, r, n) : k \in NodeKinds,
                   r \in {<<>>, <<None>>, <<Some(Str)>>},
                   n \in {<<>>} \cup {<<i>> : i \in InnerNodes}}

ReturnBodies ==
  {BlockWith(r, n) : r \in UNION {[1..k -> ReturnStatements] : k \in 0..MaxReturns},
                     n \in {<<>>} \cup {<<m>> : m \in NestedNodes}}

\* function add(a, b) and function add(a = 1, b = 's').
ReturnFns ==
  [checker : {FALSE}, async : BOOLEAN,
   parameters : {<<Param(None, None, FALSE), Param(None, None, FALSE)>>,
                 <<Param(None, Some(Num), FALSE), Param(None, Some(Str), FALSE)>>},
   type : {None}, body : ReturnBodies]

InitReturns ==
  /\ options \in {o \in InferOptions : o.config = EmptyConfig}
  /\ config = NoConfig
  /\ pc = "infer"
  /\ IdlePipeline
  /\ fn \in ReturnFns
  /\ inferred = NoInferred
  /\ IdleConcurrent
  /\ IdleVite
  /\ IdleFormat

SpecReturns == InitReturns /\ [][NextInfer]_vars

(***************************************************************************)
(* Comment formatting: formatTemplate and createJSDocComment on the text    *)
(* of the templates and of the values. A text is a sequence of pieces:      *)
(* literal text, a placeholder in one of the two syntaxes, or one of the    *)
(* "$" patterns String.prototype.replace reads in a replacement string.     *)
(***************************************************************************)
Lit(s) == [k |-> "lit", s |-> s, key |-> ""]
\* {{key}} (syntax "{{") and ${key} (syntax "${").
Placeholder(syntax, key) == [k |-> "ph", s |-> syntax, key |-> key]
\* $$ and $&.
Dollar(s) == [k |-> "dollar", s |-> s, key |-> ""]
\* The two characters that end a block comment.
Terminator == Lit("*/")

RECURSIVE Flatten(_)
Flatten(texts) ==
  IF texts = <<>> THEN <<>> ELSE Head(texts) \o Flatten(Tail(texts))

\* What String.prototype.replace puts in place of a match when the
\* replacement is a string: $$ stands for "$" and $& for the matched text.
expandReplacement(value, matched) ==
  Flatten([i \in 1..Len(value) |->
             IF value[i].k = "dollar"
               THEN IF value[i].s = "$$" THEN <<Lit("$")>> ELSE <<matched>>
               ELSE <<value[i]>>])

\* output.replace(new RegExp(<placeholder of key in the syntax>, "g"), value)
replace(text, syntax, key, value) ==
  Flatten([i \in 1..Len(text) |->
             IF text[i] = Placeholder(syntax, key)
               THEN expandReplacement(value, text[i])
               ELSE <<text[i]>>])

\* formatTemplate(template, values): values is the list of Object.entries,
\* pairs of a key and a value, in the order the object literal gives them.
RECURSIVE formatTemplate(_, _)
formatTemplate(template, values) ==
  IF values = <<>> THEN template
  ELSE LET key == values[1][1]
           value == values[1][2]
       IN formatTemplate(
            replace(replace(template, "{{", key, value), "${", key, value),
            Tail(values))

\* The values createJSDocComment binds for each of its three templates.
descriptionValues(functionName, parameters, returnType, description) ==
  <<<<"functionName", functionName>>, <<"description", description>>,
    <<"returnType", returnType>>,
    <<"paramsCount", <<Lit(ToString(Len(parameters)))>>>>>>

paramValues(functionName, param, returnType, description) ==
  <<<<"functionName", functionName>>, <<"description", description>>,
    <<"type", param.type>>, <<"name", param.name>>,
    <<"returnType", returnType>>>>

returnsValues(functionName, returnType, description) ==
  <<<<"functionName", functionName>>, <<"description", description>>,
    <<"type", returnType>>, <<"returnType", returnType>>>>

\* createJSDocComment: the lines of the comment, before the " * " prefix.
createJSDocCommentText(functionName, parameters, returnType, description, template, include) ==
  <<formatTemplate(template.descriptionLine,
      descriptionValues(functionName, parameters, returnType, description))>>
  \o [i \in 1..Len(parameters) |->
        formatTemplate(template.paramLine,
          paramValues(functionName, parameters[i], returnType, description))]
  \o (IF include \/ returnType # <<Lit("void")>>
        THEN <<formatTemplate(template.returnsLine,
                 returnsValues(functionName, returnType, description))>>
        ELSE <<>>)

\* Most parameters of a formatted function.
MaxFormatParams == 1

\* The default templates, the defaults in the other syntax, and templates
\* that name other variables.
DescriptionLines ==
  {<<Lit("@description "), Placeholder("{{", "description")>>,
   <<Lit("@description "), Placeholder("${", "description")>>,
   <<Placeholder("{{", "functionName"), Lit(": "), Placeholder("{{", "type")>>,
   <<Placeholder("{{", "paramsCount"), Lit(" "), Placeholder("${", "name")>>}

ParamLines ==
  {<<Lit("@param {"), Placeholder("${", "type"), Lit("} "), Placeholder("${", "name")>>,
   <<Lit("@param {"), Placeholder("{{", "type"), Lit("} "), Placeholder("{{", "name")>>,
   <<Lit("@param "), Placeholder("{{", "paramsCount")>>}

ReturnsLines ==
  {<<Lit("@returns {"), Placeholder("${", "type"), Lit("}")>>,
   <<Lit("@returns "), Placeholder("{{", "returnType")>>,
   <<Lit("@returns "), Placeholder("{{", "name")>>}

\* Parameter names a and $$; the types any and the string-literal type "*/".
ParamTexts ==
  [name : {<<Lit("a")>>, <<Dollar("$$")>>},
   type : {<<Lit("any")>>, <<Lit("\""), Terminator, Lit("\"")>>}]

\* The fallback description, and descriptions the AI returned.
Descriptions ==
  {<<Lit("sum function")>>, <<Lit("Returns "), Placeholder("{{", "returnType")>>,
   <<Lit("Costs "), Dollar("$&")>>, <<Lit("Ends "), Terminator>>}

InitFormat ==
  /\ options \in {o \in InferOptions : o.config = EmptyConfig}
  /\ config = NoConfig
  /\ pc = "format"
  /\ IdlePipeline
  /\ IdleInfer
  /\ IdleConcurrent
  /\ IdleVite
  /\ \E descriptionLine \in DescriptionLines, paramLine \in ParamLines,
        returnsLine \in ReturnsLines, include \in BOOLEAN,
        parameters \in UNION {[1..n -> ParamTexts] : n \in 0..MaxFormatParams},
        returnType \in {<<Lit("number")>>, <<Lit("void")>>},
        description \in Descriptions :
       format = [pc |-> "ready",
                 template |-> [descriptionLine |-> descriptionLine,
                               paramLine |-> paramLine,
                               returnsLine |-> returnsLine],
                 includeReturnsWhenVoid |-> include,
                 functionName |-> <<Lit("sum")>>,
                 parameters |-> parameters,
                 returnType |-> returnType,
                 description |-> description,
                 lines |-> <<>>]

\* One call of createJSDocComment.
Format ==
  /\ format.pc = "ready"
  /\ \E lines \in {createJSDocCommentText(format.functionName, format.parameters,
                     format.returnType, format.description, format.template,
                     format.includeReturnsWhenVoid)} :
       format' = [format EXCEPT !.pc = "formatted", !.lines = lines]
  /\ UNCHANGED <<options, config, pc, pipelineVars, inferVars, concurrentVars, viteVars>>

NextFormat == Format

SpecFormat == InitFormat /\ [][NextFormat]_vars

(***************************************************************************)
(* The build-tool plugin: jsdocBuilderVitePlugin and its transform hook.    *)
(* An id is a sequence of pieces: names, separators, an extension, the "?"  *)
(* that opens a query; offsets count pieces. The NUL character that opens a *)
(* virtual id is written as its escape.                                     *)
(***************************************************************************)
Nul == "\\0"

\* A filter pattern: a string, or a RegExp whose source is a literal text,
\* with its flags and its lastIndex.
StringPattern(text) == [kind |-> "string", source |-> text, flags |-> "", lastIndex |-> 0]
RegExp(source, flags) == [kind |-> "regexp", source |-> source, flags |-> flags, lastIndex |-> 0]

DEFAULT_EXTENSIONS == <<".js", ".jsx", ".ts", ".tsx", ".vue">>

\* String.prototype.indexOf(text, from).
indexOfFrom(id, text, from) ==
  LET at == {o \in from..(Len(id) - Len(text)) : SubSeq(id, o + 1, o + Len(text)) = text}
  IN IF at = {} THEN -1 ELSE Min(at)

lastIndexOf(id, piece) ==
  LET at == {o \in 0..(Len(id) - 1) : id[o + 1] = piece}
  IN IF at = {} THEN -1 ELSE Max(at)

stripQuery(id) ==
  LET queryIndex == indexOfFrom(id, <<"?">>, 0)
  IN IF queryIndex >= 0 THEN SubSeq(id, 1, queryIndex) ELSE id

\* id.replace(/\\/g, "/").
replaceBackslashes(id) == [i \in 1..Len(id) |-> IF id[i] = "\\" THEN "/" ELSE id[i]]

\* String.prototype.toLowerCase of a piece; of the pieces of the model only
\* ".TS" holds capitals.
toLowerCase(piece) == IF piece = ".TS" THEN ".ts" ELSE piece

\* path.extname: the extension that ends the last segment, unless the segment
\* is nothing but it.
extname(p) ==
  LET base == SubSeq(p, lastIndexOf(p, "/") + 2, Len(p))
  IN IF Len(base) >= 2 /\ startsWith(base[Len(base)], ".")
       THEN base[Len(base)] ELSE ""

\* RegExp.prototype.test: a RegExp with the g flag searches from its lastIndex
\* and leaves it after the match, or at 0 when there is none.
test(pattern, id) ==
  LET global == pattern.flags = "g"
      from == IF global THEN pattern.lastIndex ELSE 0
      at == indexOfFrom(id, pattern.source, from)
  IN [matched |-> at >= 0,
      pattern |-> IF ~global THEN pattern
                  ELSE [pattern EXCEPT !.lastIndex =
                          IF at >= 0 THEN at + Len(pattern.source) ELSE 0]]

\* matchesPattern: whether the id matches, and the pattern as the call leaves it.
matchesPattern(id, pattern) ==
  IF pattern.kind = "string"
    THEN [matched |-> indexOfFrom(id, pattern.source, 0) >= 0, pattern |-> pattern]
    ELSE test(pattern, id)

\* patterns.some((pattern) => matchesPattern(id, pattern)): the patterns are
\* tried in order up to the first that matches.
RECURSIVE SomeMatches(_, _)
SomeMatches(patterns, id) ==
  IF patterns = <<>> THEN [matched |-> FALSE, patterns |-> <<>>]
  ELSE LET m == matchesPattern(id, Head(patterns))
       IN IF m.matched
            THEN [matched |-> TRUE, patterns |-> <<m.pattern>> \o Tail(patterns)]
            ELSE LET rest == SomeMatches(Tail(patterns), id)
                 IN [matched |-> rest.matched, patterns |-> <<m.pattern>> \o rest.patterns]

\* shouldProcessFile: its answer, and the patterns as the call leaves them.
shouldProcessFile(id, include, exclude, extensions) ==
  LET normalizedId == replaceBackslashes(id)
      fileExt == toLowerCase(extname(normalizedId))
      normalizedExtensions == {toLowerCase(extensions[i]) : i \in 1..Len(extensions)}
      excluded == SomeMatches(exclude, normalizedId)
      included == SomeMatches(include, normalizedId)
  IN IF id = <<>> \/ id[1] = Nul
       THEN [process |-> FALSE, include |-> include, exclude |-> exclude]
     ELSE IF fileExt \notin normalizedExtensions
       THEN [process |-> FALSE, include |-> include, exclude |-> exclude]
     ELSE IF excluded.matched
       THEN [process |-> FALSE, include |-> include, exclude |-> excluded.patterns]
     ELSE IF include = <<>>
       THEN [process |-> TRUE, include |-> include, exclude |-> excluded.patterns]
     ELSE [process |-> included.matched, include |-> included.patterns,
           exclude |-> excluded.patterns]

\* buildCommentMap on the targets found, when the request for target i (if one
\* is made) is settled by answers[i] and no description throws.
Entry(target, cfg, answer) ==
  LET description == Val(createDescription(target.functionName, cfg, answer).value)
  IN [key |-> target.key,
      description |-> description,
      comment |-> createJSDocComment(target.functionName, description, cfg)]

buildCommentMap(found, cfg, answers) ==
  [i \in 1..Len(found) |->
     Entry(found[i], cfg, IF i \in DOMAIN answers THEN answers[i] ELSE NoOutcome)]

\* transformCode as a function of the text, the config and the answers of the
\* remote service.
transformCode(ext, code, cfg, answers) ==
  LET sourceCode == SourceCode(ext, code)
  IN IF ~IsSet(sourceCode) THEN code
     ELSE Patch(ext, code,
                buildCommentMap(collectTargets(Val(sourceCode)), cfg, answers))

generateJSDocFromCode(path, code, opts, answers) ==
  transformCode(toLowerCase(extname(path)), code, loadConfig(opts), answers)

\* The ids transform is called with: the empty id, a virtual module, source
\* files with a recognized extension in either case, a style sheet, a file of
\* a dependency, an id with a query, a Windows path, a Vue file.
Ids ==
  {<<>>, <<Nul, "virtual", ".ts">>, <<"src", "/", "a", ".ts">>,
   <<"src", "/", "a", ".TS">>, <<"src", "/", "a", ".css">>,
   <<"node_modules", "/", "b", ".ts">>, <<"src", "/", "a", ".ts", "?", "raw">>,
   <<"src", "\\", "gen", "\\", "c", ".ts">>, <<"src", "/", "a", ".vue">>}

Codes == {<<>>, <<FnDecl("sum", FALSE)>>, <<Doc("user"), FnDecl("sum", FALSE)>>}

\* The options of the plugin; AI is left off.
Includes ==
  {<<>>, <<StringPattern(<<"src", "/">>)>>,
   <<RegExp(<<"gen">>, "g"), RegExp(<<"a">>, "")>>}
Excludes ==
  {<<RegExp(<<"node_modules">>, "")>>, <<RegExp(<<"node_modules">>, "g")>>,
   <<StringPattern(<<"gen">>)>>, <<RegExp(<<"src">>, "g"), StringPattern(<<".TS">>)>>}
ExtensionLists == {DEFAULT_EXTENSIONS, <<".TS">>}

GenerateOptions ==
  [configFile |-> NoFile, config |-> EmptyConfig, disableAI |-> FALSE, env |-> NoEnv]

Null == [returned |-> "null", code |-> <<>>]
NoResult == [returned |-> "nothing", code |-> <<>>]

\* jsdocBuilderVitePlugin: the plugin, before transform is called.
InitVite ==
  /\ options = GenerateOptions
  /\ config = NoConfig
  /\ pc = "vite"
  /\ IdlePipeline
  /\ IdleInfer
  /\ IdleConcurrent
  /\ IdleFormat
  /\ \E include \in Includes, exclude \in Excludes, extensions \in ExtensionLists :
       vite = [pc |-> "plugin", include |-> include, exclude |-> exclude,
               extensions |-> extensions, id |-> <<>>, code |-> <<>>,
               processed |-> FALSE, result |-> NoResult]

\* One call of transform(code, id), up to its return.
Transform ==
  /\ pc = "vite"
  /\ config' = loadConfig(options)
  /\ \E id \in Ids, code \in Codes :
       \E should \in {shouldProcessFile(stripQuery(id), vite.include, vite.exclude,
                                        vite.extensions)} :
         \E nextCode \in {IF should.process
                            THEN transformCode(toLowerCase(extname(stripQuery(id))),
                                               code, config', <<>>)
                            ELSE code} :
           vite' = [pc |-> "plugin",
                    include |-> should.include,
                    exclude |-> should.exclude,
                    extensions |-> vite.extensions,
                    id |-> id,
                    code |-> code,
                    processed |-> should.process,
                    result |-> IF ~should.process THEN Null
                               ELSE IF nextCode = code THEN Null
                               ELSE [returned |-> "object", code |-> nextCode]]
  /\ UNCHANGED <<options, pc, pipelineVars, inferVars, concurrentVars, formatVars>>

NextVite == Transform

SpecVite == InitVite /\ [][NextVite]_vars

(***************************************************************************)
(* Two calls of generateJSDocFromCode under way at once. Each runs from one *)
(* await to the next without interruption; the calls have the module's      *)
(* DEFAULT_CONFIG object in common, and each has the inline config object   *)
(* its caller passed.                                                       *)
(***************************************************************************)
Runs == {1, 2}

\* The source units of the two calls.
Units ==
  {[path |-> <<"src", "/", "a", ".ts">>, code |-> <<FnDecl("sum", FALSE)>>],
   [path |-> <<"src", "/", "b", ".ts">>, code |-> <<VarStmt("add", TRUE), NL, FnDecl("sum", FALSE)>>]}

\* The options of the two calls: the defaults, or AI on with a key.
ConcurrentOptions ==
  {[configFile |-> NoFile, config |-> c, disableAI |-> FALSE, env |-> NoEnv] :
     c \in {EmptyConfig, Inline([enabled |-> TRUE, apiKey |-> "key"])}}

\* The merge is made in the DEFAULT_CONFIG object itself.
ObjectsAfterLoadInPlace(objects, loaded) == [objects EXCEPT !.defaults = loaded]

\* The objects the calls have in common, after a loadConfig that returned
\* `loaded`: mergeDeep and loadConfig write to objects of their own making.
ObjectsAfterLoad(objects, loaded) == objects

InitConcurrent ==
  /\ options = GenerateOptions
  /\ config = NoConfig
  /\ pc = "concurrent"
  /\ IdlePipeline
  /\ IdleInfer
  /\ IdleVite
  /\ IdleFormat
  /\ \E o \in [Runs -> ConcurrentOptions], u \in [Runs -> Units] :
       /\ runs = [r \in Runs |->
                    [options |-> o[r], path |-> u[r].path, code |-> u[r].code,
                     pc |-> "start", config |-> NoConfig, targets |-> <<>>,
                     entries |-> <<>>, awaiting |-> FALSE, answers |-> <<>>,
                     output |-> <<>>]]
       /\ shared = [defaults |-> DEFAULT_CONFIG, inline |-> [r \in Runs |-> o[r].config]]

\* generateJSDocFromCode by call r, up to the first await of buildCommentMap.
Start(r) ==
  /\ runs[r].pc = "start"
  /\ LET loaded == loadConfigFrom(shared.defaults,
                     [runs[r].options EXCEPT !.config = shared.inline[r]])
     IN /\ runs' = [runs EXCEPT ![r].pc = "build",
                                ![r].config = loaded,
                                ![r].targets = collectTargets(runs[r].code)]
        /\ shared' = ObjectsAfterLoad(shared, loaded)

\* An iteration of call r that makes no request.
Iterate(r) ==
  /\ runs[r].pc = "build"
  /\ ~runs[r].awaiting
  /\ Len(runs[r].entries) < Len(runs[r].targets)
  /\ ~IssuesRequest(runs[r].config)
  /\ LET i == Len(runs[r].entries) + 1
     IN runs' = [runs EXCEPT
          ![r].answers = Append(@, NoOutcome),
          ![r].entries = Append(@, Entry(runs[r].targets[i], runs[r].config, NoOutcome))]
  /\ UNCHANGED shared

\* An iteration of call r up to its await: the request goes out.
Send(r) ==
  /\ runs[r].pc = "build"
  /\ ~runs[r].awaiting
  /\ Len(runs[r].entries) < Len(runs[r].targets)
  /\ IssuesRequest(runs[r].config)
  /\ runs' = [runs EXCEPT ![r].awaiting = TRUE]
  /\ UNCHANGED shared

\* The request of call r settles and its iteration ends.
Resume(r) ==
  /\ runs[r].pc = "build"
  /\ runs[r].awaiting
  /\ \E outcome \in Outcomes :
       LET i == Len(runs[r].entries) + 1
       IN runs' = [runs EXCEPT
            ![r].awaiting = FALSE,
            ![r].answers = Append(@, outcome),
            ![r].entries = Append(@, Entry(runs[r].targets[i], runs[r].config, outcome))]
  /\ UNCHANGED shared

\* transformCode of call r from line 166 on.
Return(r) ==
  /\ runs[r].pc = "build"
  /\ ~runs[r].awaiting
  /\ Len(runs[r].entries) = Len(runs[r].targets)
  /\ runs' = [runs EXCEPT
       ![r].pc = "done",
       ![r].output = Patch(toLowerCase(extname(runs[r].path)), runs[r].code,
                           runs[r].entries)]
  /\ UNCHANGED shared

NextConcurrent ==
  \E r \in Runs :
    /\ Start(r) \/ Iterate(r) \/ Send(r) \/ Resume(r) \/ Return(r)
    /\ UNCHANGED <<options, config, pc, pipelineVars, inferVars, viteVars, formatVars>>

SpecConcurrent == InitConcurrent /\ [][NextConcurrent]_vars

(***************************************************************************)
(* Properties of the pipeline                                               *)
(***************************************************************************)
\* The run has returned a text.
HasReturned == pc \in {"returned", "done"} /\ result = "resolved"

\* The script of the current pass, as handed to the parser.
HasScript == IsSet(SourceCode(filePath.ext, originalCode))
Script == Val(SourceCode(filePath.ext, originalCode))

\* The declarations a comment can go on, and those that carry a documentation
\* comment: a "/**" comment among their leading comments.
IsDeclaration(text, p) == text[p].k \in {"fn", "var"}
CarriesDoc(text, p) ==
  \E q \in LeadingCommentRanges(text, FullStart(text, p)) : text[q].k = "doc"
Declarations(text) == {p \in 1..Len(text) : IsDeclaration(text, p)}
Documentable(text) == {p \in Declarations(text) : ~CarriesDoc(text, p)}

\* C1 as stated: the second application returns its input, and collects no
\* target.
C1_AsStated ==
  (pass = 2 /\ pc # "start") =>
    /\ targets = <<>>
    /\ (HasReturned => output = output1)

\* The text without the tokens of the given comments and the line break that
\* follows each.
RECURSIVE RemoveInserted(_, _)
RemoveInserted(text, comments) ==
  IF text = <<>> THEN <<>>
  ELSE IF Head(text) \in comments
    THEN (IF Len(text) > 1 /\ text[2].k = "nl"
            THEN RemoveInserted(SubSeq(text, 3, Len(text)), comments)
            ELSE RemoveInserted(Tail(text), comments))
    ELSE <<Head(text)>> \o RemoveInserted(Tail(text), comments)

\* C2 as stated: the transformed script without the inserted comments is the
\* original script, byte for byte.
C2_AsStated ==
  (HasReturned /\ filePath.ext = ".ts") =>
    RemoveInserted(output, {entries[j].comment : j \in 1..Len(entries)}) = originalCode

\* The number of writes the passes so far account for.
WritesDue ==
  IF pass = 1 THEN (IF output # input1 THEN 1 ELSE 0)
  ELSE (IF output1 # input1 THEN 1 ELSE 0) + (IF output # output1 THEN 1 ELSE 0)

\* C3: a unit without a documentable declaration is returned as it is and not
\* written; the file is written exactly when the text produced differs from
\* the text read.
C3_NoOp ==
  /\ (HasReturned /\ (~HasScript \/ Documentable(Script) = {})) => output = originalCode
  /\ (pc = "done" /\ result = "resolved") => (writes = WritesDue /\ file = output)
  /\ (pc = "returned" /\ pass = 1) => (writes = 0 /\ file = originalCode)

\* Every declaration of the script is documented, nothing was written.
C3_Witness ==
  /\ pc = "done"
  /\ pass = 1
  /\ HasScript
  /\ Declarations(Script) # {}
  /\ Documentable(Script) = {}
  /\ output = input1
  /\ writes = 0

\* C4 as stated: in a Vue file what is before the first character after the
\* opening tag of the first script block, and what is from its closing tag on,
\* is in the output unchanged.
C4_AsStated ==
  (HasReturned /\ filePath.ext = ".vue" /\ IsSet(ScriptMatch(originalCode, 1))) =>
    LET m == Val(ScriptMatch(originalCode, 1))
        startOffset == m.gt
        endOffset == m.last - 1
        tail == Len(originalCode) - endOffset
    IN /\ Len(output) >= startOffset + tail
       /\ Slice(output, 0, startOffset) = Slice(originalCode, 0, startOffset)
       /\ SliceFrom(output, Len(output) - tail) = SliceFrom(originalCode, endOffset)

\* The p-th declaration of a text.
RECURSIVE NthDeclaration(_, _, _)
NthDeclaration(text, n, from) ==
  LET p == Find(text, from, {"fn", "var"})
  IN IF n = 1 THEN p ELSE NthDeclaration(text, n - 1, p + 1)

\* The documentation comments between the statement before p and p, in order.
DocsBefore(text, p) ==
  SelectSeq(SubSeq(text, FullStart(text, p) + 1, p - 1), LAMBDA t : t.k = "doc")

\* C5: a declaration that carries a documentation comment is no target and
\* gets no entry, and in the text returned it has the documentation comments it
\* had, no more.
C5_DocumentedNeverCollected ==
  (pc # "start" /\ HasScript) =>
    /\ \A p \in Declarations(Script) :
         CarriesDoc(Script, p) =>
           /\ \A j \in 1..Len(targets) : targets[j].key # makeNodeKey(Script, p)
           /\ \A j \in 1..Len(entries) : entries[j].key # makeNodeKey(Script, p)
    /\ (HasReturned /\ filePath.ext = ".ts") =>
         /\ Cardinality(Declarations(output)) = Cardinality(Declarations(originalCode))
         /\ \A n \in 1..Cardinality(Declarations(originalCode)) :
              LET p == NthDeclaration(originalCode, n, 1)
                  q == NthDeclaration(output, n, 1)
              IN CarriesDoc(originalCode, p) =>
                   /\ CarriesDoc(output, q)
                   /\ DocsBefore(output, q) = DocsBefore(originalCode, p)

\* A documented declaration next to one that got a comment.
C5_Witness ==
  /\ pc = "done"
  /\ pass = 1
  /\ filePath.ext = ".ts"
  /\ \E p \in Declarations(originalCode) : CarriesDoc(originalCode, p)
  /\ Len(entries) >= 1
  /\ output # originalCode

\* C6 as stated: a parameter or a return position that carries a type
\* annotation is reported with the annotation's text, with or without a
\* checker.
C6_AsStated ==
  pc = "inferred" =>
    /\ \A i \in 1..Len(fn.parameters) :
         IsSet(fn.parameters[i].type) =>
           inferred.parameters[i] = Val(fn.parameters[i].type)
    /\ IsSet(fn.type) => inferred.returnType = Val(fn.type)

\* The configuration of the run has AI on and a key.
AiOn == IsSet(config.ai.enabled) /\ Val(config.ai.enabled) /\ TruthyStr(config.ai.apiKey)

\* The request failed: it timed out, the transport broke, the status was >= 400,
\* the body was no JSON, or the body held no content or a blank one.
Failed(outcome) ==
  \/ outcome.kind \in {"timeout", "transport", "http", "badJson"}
  \/ outcome.kind = "ok" /\ ~IsSet(outcome.content)
  \/ outcome.kind = "ok" /\ IsSet(outcome.content)
       /\ \A i \in 1..Len(Val(outcome.content)) : Val(outcome.content)[i] \in Whitespace

\* C7 as stated: with AI on and a key, a request that fails leaves its target
\* with the description "<functionName> function", a malformed endpoint does so
\* for every target, the run is never rejected, and it returns the text with a
\* comment for every target.
C7_AsStated ==
  /\ result # "rejected"
  /\ (AiOn /\ last.target # 0 /\ Failed(last.outcome)) =>
       /\ Len(entries) >= last.target
       /\ entries[last.target].key = targets[last.target].key
       /\ entries[last.target].description
            = targets[last.target].functionName \o " function"
  /\ (AiOn /\ ~HasEndpoint(config.ai)) =>
       /\ requests = <<>>
       /\ \A j \in 1..Len(entries) :
            entries[j].description = targets[j].functionName \o " function"
  /\ (AiOn /\ HasReturned /\ HasScript) =>
       /\ Len(entries) = Len(targets)
       /\ (targets # <<>> => output # originalCode)
       /\ \A j \in 1..Len(entries) :
            \E q \in 1..Len(output) : output[q] = entries[j].comment

\* C8: with AI off or without a key, every description is
\* "<functionName> function" and no request is made.
C8_NoNetwork ==
  (IsSet(config.ai.enabled) /\ ~AiOn) =>
    /\ requests = <<>>
    /\ inflight = {}
    /\ last = NoLast
    /\ \A j \in 1..Len(entries) :
         /\ entries[j].description = targets[j].functionName \o " function"
         /\ targets[j].functionName = "sum" => entries[j].description = "sum function"

\* AI is on in the config and there is a key, the disable flag is set: the
\* function sum is described as "sum function".
C8_Witness ==
  /\ pc = "done"
  /\ options.disableAI
  /\ TruthyStr(config.ai.apiKey)
  /\ Len(entries) >= 1
  /\ entries[1].description = "sum function"
  /\ requests = <<>>

\* C9: at most one request is in flight; the requests go out in collection
\* order, each after the one before it was answered; and the text is patched
\* only once every target has its comment.
C9_Sequential ==
  /\ Cardinality(inflight) <= 1
  /\ \A j \in 1..Len(requests) : requests[j] = j
  /\ \A i \in inflight : /\ Len(requests) = i
                         /\ Len(entries) = i - 1
  /\ \A j \in 1..Len(entries) : j <= Len(targets) /\ entries[j].key = targets[j].key
  /\ (HasReturned /\ HasScript) => (Len(entries) = Len(targets) /\ inflight = {})

\* The second of three requests is in flight, the first one answered.
C9_Witness ==
  /\ pc = "build"
  /\ Len(targets) = 3
  /\ requests = <<1, 2>>
  /\ inflight = {2}
  /\ Len(entries) = 1

(***************************************************************************)
(* C10                                                                     *)
(***************************************************************************)
\* The value of the highest-precedence source that sets a property, by
\* decreasing precedence: disable flag, inline config, config file, defaults.
Highest(opts, section, f) ==
  LET fileCfg == IF opts.configFile.state = "object" THEN opts.configFile.value
                 ELSE EmptyConfig
      pick(s) == IF section = "top" THEN s.includeReturnsWhenVoid ELSE s[section][f]
  IN IF section = "ai" /\ f = "enabled" /\ opts.disableAI THEN Some(FALSE)
     ELSE IF IsSet(pick(opts.config)) THEN pick(opts.config)
     ELSE IF IsSet(pick(fileCfg)) THEN pick(fileCfg)
     ELSE pick(DEFAULT_CONFIG)

\* The provider loadConfig settles on, from the highest-precedence setting.
HighestProvider(opts) == normalizeProvider(Highest(opts, "ai", "provider"))

\* The cases in which loadConfig replaces the merged value of an ai property.
Normalised(opts, f) ==
  LET h == Highest(opts, "ai", f)
      otherDefaults == IF HighestProvider(opts) = "gemini" THEN OPENAI_AI_DEFAULTS
                       ELSE GEMINI_AI_DEFAULTS
  IN CASE f = "provider" -> Val(h) \notin {"openai", "gemini"}
       [] f = "enabled" -> /\ Val(h)
                           /\ ~TruthyStr(Highest(opts, "ai", "apiKey"))
                           /\ ~IsSet(resolveApiKeyFromEnv(HighestProvider(opts), opts.env))
       [] f = "apiKey" -> ~TruthyStr(h)
       [] f = "model" -> ~TruthyStr(h) \/ Val(h) = otherDefaults.model
       [] f = "baseUrl" -> ~TruthyStr(h) \/ Val(h) = otherDefaults.baseUrl
       [] f = "timeoutMs" -> ~TruthyNum(h) \/ Val(h) <= 0
       [] f = "promptTemplate" -> ~TruthyStr(h)

\* C10 as stated: in the configuration loadConfig returns, every property of
\* template and of ai and includeReturnsWhenVoid has the value of the
\* highest-precedence source that sets it (defaults < file < inline < disable
\* flag), and the disable flag forces ai.enabled to false.
C10_AsStated ==
  pc = "configured" =>
    /\ \A f \in TemplateFields : config.template[f] = Highest(options, "template", f)
    /\ \A f \in AiFields : config.ai[f] = Highest(options, "ai", f)
    /\ config.includeReturnsWhenVoid = Highest(options, "top", "includeReturnsWhenVoid")
    /\ (options.disableAI => config.ai.enabled = Some(FALSE))

\* C10 (amended): template properties and includeReturnsWhenVoid have the
\* value of the highest-precedence source that sets them, merged property by
\* property; so has every ai property that loadConfig's normalisation (provider
\* coercion, provider defaults, environment key, AI forced off without a key)
\* does not replace; and the disable flag forces ai.enabled to false.
C10_Precedence ==
  pc = "configured" =>
    /\ \A f \in TemplateFields : config.template[f] = Highest(options, "template", f)
    /\ \A f \in AiFields :
         ~Normalised(options, f) => config.ai[f] = Highest(options, "ai", f)
    /\ config.includeReturnsWhenVoid = Highest(options, "top", "includeReturnsWhenVoid")
    /\ (options.disableAI => config.ai.enabled = Some(FALSE))

\* The config file sets one ai property and the inline config another one:
\* both are in the result.
C10_Witness ==
  /\ pc = "configured"
  /\ options.configFile.state = "object"
  /\ options.configFile.value.ai.apiKey = Some("key")
  /\ options.config.ai.enabled = Some(TRUE)
  /\ ~options.disableAI
  /\ config.ai.enabled = Some(TRUE)
  /\ config.ai.apiKey = Some("key")

(***************************************************************************)
(* C11, C13                                                                *)
(***************************************************************************)
\* The key the environment gives for a provider, by the documented order.
EnvKey(provider, env) ==
  IF provider = "gemini"
    THEN (IF env.GEMINI_API_KEY # "" THEN env.GEMINI_API_KEY ELSE env.GOOGLE_API_KEY)
    ELSE env.OPENAI_API_KEY

\* C11: in the configuration loadConfig returns, ai.enabled is true only with
\* a non-empty apiKey; a non-empty key set by a source is kept; without one the
\* key is the provider's environment key (OPENAI_API_KEY; GEMINI_API_KEY, then
\* GOOGLE_API_KEY); without that either, AI is off.
C11_EnabledNeedsKey ==
  pc = "configured" =>
    LET set == Highest(options, "ai", "apiKey")
        fromEnv == EnvKey(HighestProvider(options), options.env)
    IN /\ Val(config.ai.enabled) = TRUE => TruthyStr(config.ai.apiKey)
       /\ TruthyStr(set) => config.ai.apiKey = set
       /\ (~TruthyStr(set) /\ fromEnv # "") => config.ai.apiKey = Some(fromEnv)
       /\ (~TruthyStr(set) /\ fromEnv = "") =>
            (~TruthyStr(config.ai.apiKey) /\ config.ai.enabled = Some(FALSE))

\* Gemini, AI on, no key set, both Gemini variables in the environment: the
\* key is GEMINI_API_KEY's.
C11_Witness ==
  /\ pc = "configured"
  /\ Highest(options, "ai", "provider") = Some("gemini")
  /\ Highest(options, "ai", "enabled") = Some(TRUE)
  /\ ~TruthyStr(Highest(options, "ai", "apiKey"))
  /\ options.env.GEMINI_API_KEY # "" /\ options.env.GOOGLE_API_KEY # ""
  /\ config.ai.apiKey = Some(options.env.GEMINI_API_KEY)
  /\ config.ai.enabled = Some(TRUE)

\* C13: a config file that is missing, unreadable, not JSON or no JSON object
\* contributes nothing: loadConfig returns what it returns without a file.
C13_BadFileIgnored ==
  (pc = "configured" /\ options.configFile.state # "object") =>
    /\ config = loadConfig([options EXCEPT !.configFile = NoFile])
    /\ \A f \in TemplateFields :
         config.template[f] = IF IsSet(options.config.template[f])
                                THEN options.config.template[f]
                                ELSE DEFAULT_CONFIG.template[f]

\* A file that is not JSON spells out settings, and the inline config sets a
\* template line: the file's settings are not in the result.
C13_Witness ==
  /\ pc = "configured"
  /\ options.configFile.state = "invalid"
  /\ options.configFile.value.ai.apiKey = Some("file-key")
  /\ IsSet(options.config.template.descriptionLine)
  /\ config.template.descriptionLine = options.config.template.descriptionLine
  /\ config.ai.apiKey # Some("file-key")
(***************************************************************************)
(* C16                                                                     *)
(***************************************************************************)
\* C16: in a run no target is asked about twice, whatever became of its
\* request, and no request is made for anything but a collected target.
C16_OneRequestPerTarget ==
  /\ \A j, k \in 1..Len(requests) : requests[j] = requests[k] => j = k
  /\ \A j \in 1..Len(requests) : requests[j] \in 1..Len(targets)
  /\ Len(requests) <= Len(entries) + 1

\* Both requests of a run over two targets failed, and the run went on to its
\* end with two requests made.
C16_Witness ==
  /\ pc = "done"
  /\ Len(targets) = 2
  /\ Len(requests) = 2
  /\ entries[1].description = Fallback(targets[1].functionName)
  /\ last.target = 2
  /\ last.outcome.kind = "timeout"

(***************************************************************************)
(* C14, C19, C20                                                           *)
(***************************************************************************)
\* The comment holds a line formatted from the returns template.
HasReturnsLine(lines) == \E i \in 1..Len(lines) : lines[i].template = "returnsLine"

\* C14: the comment of a declaration holds a returns line exactly when
\* includeReturnsWhenVoid is true or the return type's text is not "void";
\* the line is the last one, there is one of it, and it carries the type.
C14_ReturnsLine ==
  pc = "inferred" =>
    /\ HasReturnsLine(inferred.lines)
         <=> (Val(config.includeReturnsWhenVoid) \/ inferred.returnType # "void")
    /\ \A i \in 1..Len(inferred.lines) :
         inferred.lines[i].template = "returnsLine" =>
           i = Len(inferred.lines) /\ inferred.lines[i].type = inferred.returnType

\* A function that returns nothing, commented with returns lines for void
\* turned off: the comment has no returns line.
C14_Witness ==
  /\ pc = "inferred"
  /\ config.includeReturnsWhenVoid = Some(FALSE)
  /\ inferred.returnType = "void"
  /\ Len(fn.parameters) = 1
  /\ ~HasReturnsLine(inferred.lines)

\* C19 as stated: an async function without a return type annotation is
\* reported with a return type of the form Promise<...>, whether its body is
\* an expression, a block with return statements or a block without any.
C19_AsStated ==
  (pc = "inferred" /\ fn.async /\ ~IsSet(fn.type)) =>
    startsWith(inferred.returnType, "Promise<")

\* C20 as stated: a parameter whose default value is the name of a parameter
\* declared before it is reported with that parameter's type, and a function
\* that returns a parameter is reported with that parameter's type.
C20_AsStated ==
  pc = "inferred" =>
    /\ \A i \in 2..Len(fn.parameters) :
         (~IsSet(fn.parameters[i].type)
            /\ fn.parameters[i].initializer = Some(Identifier("a")))
           => inferred.parameters[i] = inferred.parameters[1]
    /\ (~fn.checker /\ ~fn.async /\ ~IsSet(fn.type) /\ Len(fn.parameters) >= 1
          /\ fn.body.returns = <<Some(Identifier("a"))>>)
         => inferred.returnType = inferred.parameters[1]

(***************************************************************************)
(* C17, C18                                                                *)
(***************************************************************************)
\* C17 as stated: whatever the remote service does, a request in flight is
\* eventually settled, by its answer or by its timeout.
C17_AsStated == (inflight # {}) ~> (inflight = {})

\* C18 as stated: once a request has failed, the console holds a warning.
C18_AsStated ==
  (AiOn /\ last.target # 0 /\ Failed(last.outcome)) => log # <<>>

(***************************************************************************)
(* C15                                                                     *)
(***************************************************************************)
\* The pattern occurs in the id.
Occurs(pattern, id) == indexOfFrom(id, pattern.source, 0) >= 0

\* The id of the last call is filtered out, as the claim lists the cases.
FilteredOut ==
  LET targetId == stripQuery(vite.id)
      normalizedId == replaceBackslashes(targetId)
  IN \/ targetId = <<>>
     \/ targetId[1] = Nul
     \/ \A i \in 1..Len(vite.extensions) :
          toLowerCase(extname(normalizedId)) # toLowerCase(vite.extensions[i])
     \/ \E i \in 1..Len(vite.exclude) : Occurs(vite.exclude[i], normalizedId)
     \/ /\ vite.include # <<>>
        /\ \A i \in 1..Len(vite.include) : ~Occurs(vite.include[i], normalizedId)

\* C15 as stated: transform returns null exactly when the id is filtered out
\* or the generated text equals the code, and the generated text with a null
\* map otherwise; an id that matches an exclude pattern is never processed.
C15_AsStated ==
  vite.result # NoResult =>
    LET nextCode == generateJSDocFromCode(stripQuery(vite.id), vite.code, options, <<>>)
    IN /\ vite.result = Null <=> (FilteredOut \/ nextCode = vite.code)
       /\ vite.result # Null => vite.result = [returned |-> "object", code |-> nextCode]
       /\ (\E i \in 1..Len(vite.exclude) :
             Occurs(vite.exclude[i], replaceBackslashes(stripQuery(vite.id))))
            => ~vite.processed

C28_AsStated ==
  (pc # "start" /\ filePath.ext = ".vue" /\ IsSet(ScriptMatch(originalCode, 1))) =>
    LET m == Val(ScriptMatch(originalCode, 1))
        v == Val(extractVueScript(originalCode))
    IN /\ v.contentStart = m.gt
       /\ v.contentEnd = m.last - 1
       /\ Slice(originalCode, v.contentStart, v.contentEnd) = v.content
       /\ v.openTag = SubSeq(originalCode, m.first, m.gt)

\* The documentation comments of a text.
DocCount(text) == Cardinality({p \in 1..Len(text) : text[p].k = "doc"})

\* C26: the keys of the collected targets are pairwise distinct, each is the
\* key of exactly one node of the parsed script, the entries of the comment
\* map are one per target, under the target's key, and the returned text
\* holds one inserted comment per target.
C26_KeysIdentifyTargets ==
  (pc # "start" /\ HasScript) =>
    /\ \A i, j \in 1..Len(targets) : targets[i].key = targets[j].key => i = j
    /\ \A i \in 1..Len(targets) :
         Cardinality({p \in 1..Len(Script) :
                        IsStatement(Script[p]) /\ makeNodeKey(Script, p) = targets[i].key}) = 1
    /\ Len(entries) <= Len(targets)
    /\ MapSize(entries) = Len(entries)
    /\ \A i \in 1..Len(entries) : entries[i].key = targets[i].key
    /\ (HasReturned /\ result = "resolved") =>
         DocCount(output) = DocCount(originalCode) + Len(targets)

\* A run over a script with two declarations of the same kind and name has
\* returned with a comment on each.
C26_Witness ==
  /\ HasReturned
  /\ result = "resolved"
  /\ Len(targets) = 2
  /\ targets[1].functionName = targets[2].functionName
  /\ MapSize(entries) = 2

(***************************************************************************)
(* C25                                                                     *)
(***************************************************************************)
\* Whether the node at token p of the script is among the collected targets.
Collected(text, p) ==
  \E i \in 1..Len(targets) : targets[i].key = makeNodeKey(text, p)

\* The declarations the walk is to collect: a function declaration with a
\* name, or a variable declaration whose name is a simple identifier and
\* whose initializer is a function, without a documentation comment.
Collectable(text, p) ==
  /\ \/ text[p].k = "fn" /\ text[p].n # ""
     \/ text[p].k = "var" /\ SubSeq(text[p].n, 1, 1) \notin {"{", "["}
  /\ ~CarriesDoc(text, p)

\* C25 as stated: a node is collected if and only if it has no documentation
\* comment and is a named function declaration or a variable declaration of
\* a simple identifier initialised with a function.
C25_AsStated ==
  (pc = "collected") =>
    \A p \in 1..Len(file) :
      (IsStatement(file[p]) /\ Collected(file, p)) <=> Collectable(file, p)

(***************************************************************************)
(* C23                                                                     *)
(***************************************************************************)
\* A printed type the code takes from the checker.
Usable(typeText) == typeText # "" /\ typeText # "{}"

\* C23: with a checker, the type of a parameter and the return type are the
\* checker's printed type whenever it is non-empty and not "{}"; when it is
\* "{}" the text of the annotation, if there is one, is the result.
C23_OracleFirst ==
  (pc = "inferred" /\ fn.checker) =>
    /\ \A i \in 1..Len(fn.parameters) :
         LET typeText == CheckerParameterType(fn.parameters, i)
         IN IF Usable(typeText)
              THEN inferred.parameters[i] = typeText
              ELSE IsSet(fn.parameters[i].type) =>
                     inferred.parameters[i] = Val(fn.parameters[i].type)
    /\ LET typeText == CheckerReturnType(fn)
       IN IF Usable(typeText)
            THEN inferred.returnType = typeText
            ELSE IsSet(fn.type) => inferred.returnType = Val(fn.type)

\* With a checker, a parameter annotated with an alias of string was given
\* the type string, one annotated {} kept its annotation, and the return
\* type is the checker's.
C23_Witness ==
  /\ pc = "inferred"
  /\ fn.checker
  /\ Len(fn.parameters) = 2
  /\ fn.parameters[1].type = Some("Id")
  /\ inferred.parameters[1] = "string"
  /\ fn.parameters[2].type = Some("{}")
  /\ inferred.parameters[2] = "{}"
  /\ fn.type = Some("Array<number>")
  /\ inferred.returnType = "number[]"

(***************************************************************************)
(* C24, C21, C22                                                           *)
(***************************************************************************)
\* The type the comment gives an operand: a literal's, or the one of the
\* parameter of that name.
OperandType(operand) ==
  CASE operand.kind = "num" -> "number"
    [] operand.kind = "str" -> "string"
    [] operand.kind = "id" ->
         IF operand.text = "a" THEN inferred.parameters[1] ELSE inferred.parameters[2]

\* C24: the type of a returned l + r is string if either operand's type is
\* string, number if both are number, any otherwise; function add(a, b)
\* { return a + b; } gets any, any and any.
C24_PlusType ==
  (/\ pc = "inferred"
   /\ ~fn.async
   /\ Len(fn.body.returns) = 1
   /\ fn.body.returns[1] # None
   /\ fn.body.nested = <<>>
   /\ Val(fn.body.returns[1]).kind = "plus") =>
    LET left == OperandType(Val(fn.body.returns[1]).left)
        right == OperandType(Val(fn.body.returns[1]).right)
    IN /\ (left = "string" \/ right = "string") => inferred.returnType = "string"
       /\ (left = "number" /\ right = "number") => inferred.returnType = "number"
       /\ (left # "string" /\ right # "string" /\ (left # "number" \/ right # "number"))
            => inferred.returnType = "any"
       /\ (fn.parameters = <<Param(None, None, FALSE), Param(None, None, FALSE)>>
           /\ fn.body.returns[1] = Some(Plus(Identifier("a"), Identifier("b"))))
            => /\ inferred.parameters = <<"any", "any">>
               /\ inferred.returnType = "any"

\* function add(a, b) { return a + b; } has been inferred.
C24_Witness ==
  /\ pc = "inferred"
  /\ ~fn.checker
  /\ ~fn.async
  /\ fn.parameters = <<Param(None, None, FALSE), Param(None, None, FALSE)>>
  /\ fn.body = Block(<<Some(Plus(Identifier("a"), Identifier("b")))>>)
  /\ inferred.returnType = "any"

\* The members of a union as printed: the texts between the " | " separators.
RECURSIVE Members(_)
Members(text) ==
  LET cuts == {i \in 1..(Len(text) - 2) : SubSeq(text, i, i + 2) = " | "}
  IN IF cuts = {} THEN <<text>>
     ELSE LET i == Min(cuts)
          IN <<SubSeq(text, 1, i - 1)>> \o Members(SubSeq(text, i + 3, Len(text)))

\* C21 as stated: without a checker and an annotation, the return type of a
\* block body lists each type once: no member of the union is repeated, and
\* void is a member only when it is the whole result.
C21_AsStated ==
  (pc = "inferred" /\ ~fn.async /\ fn.body.block) =>
    LET members == Members(inferred.returnType)
    IN /\ \A i, j \in 1..Len(members) : members[i] = members[j] => i = j
       /\ Len(members) > 1 => \A i \in 1..Len(members) : members[i] # "void"

\* The kinds of node that are functions of their own.
FunctionKinds ==
  {"FunctionDeclaration", "FunctionExpression", "ArrowFunction",
   "MethodDeclaration", "GetAccessor", "SetAccessor", "Constructor"}

\* The return statements of a list of nodes that belong to the enclosing
\* function: those not inside a function of their own, at any depth.
RECURSIVE OwnReturns(_)
OwnReturns(nodes) ==
  IF nodes = <<>> THEN <<>>
  ELSE (IF Head(nodes).kind \in FunctionKinds THEN <<>>
        ELSE Head(nodes).returns \o OwnReturns(Head(nodes).nested))
       \o OwnReturns(Tail(nodes))

\* C22: the return type is the one of the body's own return statements
\* alone, whatever functions are nested in it; bare returns alone give void
\* (in a Promise for an async function), and no own return gives void.
C22_OwnReturnsOnly ==
  (pc = "inferred" /\ fn.body.block /\ ~fn.checker /\ fn.type = None) =>
    LET own == fn.body.returns \o OwnReturns(fn.body.nested)
    IN /\ inferred.returnType = inferReturnTypeText([fn EXCEPT !.body = Block(own)])
       /\ own = <<>> => inferred.returnType = "void"
       /\ (own # <<>> /\ \A i \in 1..Len(own) : own[i] = None) =>
            inferred.returnType = (IF fn.async THEN "Promise<void>" ELSE "void")

\* A body that returns a number, with an if statement that holds an arrow
\* function returning a string, was inferred as number.
C22_Witness ==
  /\ pc = "inferred"
  /\ ~fn.async
  /\ fn.body.returns = <<Some(Num)>>
  /\ fn.body.nested = <<Node("IfStatement", <<>>,
                             <<Node("ArrowFunction", <<Some(Str)>>, <<>>)>>)>>
  /\ inferred.returnType = "number"

(***************************************************************************)
(* C27, C30, C29                                                           *)
(***************************************************************************)
PlaceholderKeys ==
  {"functionName", "description", "type", "name", "returnType", "paramsCount"}

\* The template with each placeholder written in the other syntax.
OtherSyntax(template) ==
  [i \in 1..Len(template) |->
     IF template[i].k = "ph"
       THEN Placeholder(IF template[i].s = "{{" THEN "${" ELSE "{{", template[i].key)
       ELSE template[i]]

\* A value that is literal text with nothing special in it.
Plain(value) == \A i \in 1..Len(value) : value[i].k = "lit" /\ value[i] # Terminator

PlainValues ==
  /\ Plain(format.description)
  /\ \A i \in 1..Len(format.parameters) :
       Plain(format.parameters[i].name) /\ Plain(format.parameters[i].type)

\* C27 as stated: for values of plain text, no placeholder of the six
\* variables is left in a produced line, and the lines are the same when the
\* templates are written in the other syntax.
C27_AsStated ==
  (format.pc = "formatted" /\ PlainValues) =>
    /\ \A l \in 1..Len(format.lines) : \A i \in 1..Len(format.lines[l]) :
         ~(format.lines[l][i].k = "ph" /\ format.lines[l][i].key \in PlaceholderKeys)
    /\ format.lines =
         createJSDocCommentText(format.functionName, format.parameters,
           format.returnType, format.description,
           [descriptionLine |-> OtherSyntax(format.template.descriptionLine),
            paramLine |-> OtherSyntax(format.template.paramLine),
            returnsLine |-> OtherSyntax(format.template.returnsLine)],
           format.includeReturnsWhenVoid)

\* The value bound to a key in a list of values, if any.
Bound(values, key) == \E j \in 1..Len(values) : values[j][1] = key
ValueOf(values, key) == values[CHOOSE j \in 1..Len(values) : values[j][1] = key][2]

\* The template with each placeholder of a bound key replaced by the value
\* as it is, once.
Verbatim(template, values) ==
  Flatten([i \in 1..Len(template) |->
             IF template[i].k = "ph" /\ Bound(values, template[i].key)
               THEN ValueOf(values, template[i].key)
               ELSE <<template[i]>>])

\* C30 as stated: the description line and the parameter lines hold each
\* bound value as it is, once per placeholder of the template, nothing of a
\* value being read as a pattern or expanded later.
C30_AsStated ==
  (format.pc = "formatted") =>
    /\ format.lines[1] =
         Verbatim(format.template.descriptionLine,
                  descriptionValues(format.functionName, format.parameters,
                                    format.returnType, format.description))
    /\ \A i \in 1..Len(format.parameters) :
         format.lines[1 + i] =
           Verbatim(format.template.paramLine,
                    paramValues(format.functionName, format.parameters[i],
                                format.returnType, format.description))

\* C29 as stated: no line of a formatted comment holds the terminator of a
\* block comment.
C29_AsStated ==
  (format.pc = "formatted") =>
    \A l \in 1..Len(format.lines) : \A i \in 1..Len(format.lines[l]) :
      format.lines[l][i] # Terminator

====
